---- MODULE Spec2Model ----
(***************************************************************************)
(* Model of liblsl's stream resolver: resolver_impl (resolver_impl.cpp)    *)
(* and resolve_attempt (resolve_attempt_udp.{h,cpp}).                      *)
(*                                                                         *)
(* Threads: the caller thread (resolve_oneshot, resolve_continuous, the    *)
(* destructor), a foreign thread (cancel(), results()), and the thread     *)
(* that runs the attempt's io_context (the caller in one-shot mode, the    *)
(* background thread in continuous mode).  The io_context is modelled by   *)
(* its outstanding asynchronous operations (one receive, three timers),    *)
(* the set of completion handlers that are ready to run, and the number of *)
(* posted do_cancel functions.  Time is a bounded integer clock.           *)
(***************************************************************************)
EXTENDS Integers, Sequences, FiniteSets, TLC

\* ---------------------------------------------------------------- bounds
MaxTime == 2
MaxCancels == 1
MaxAttempts == 2
UnicastMinRtt == 1
MulticastMinRtt == 2
ContinuousResolveInterval == 1

\* a duration that exceeds every time of the model (FOREVER of common.h)
FOREVER == 1000

UIDs == {1, 2}
Fams == {4, 6}
\* a reply is (uid, family of the source address, source address); Junk is a
\* datagram without a newline
Junk == [uid |-> 0, fam |-> 0, addr |-> 9]
\* a datagram whose first line is not the attempt's query id
StaleReply == [uid |-> 0, fam |-> 0, addr |-> 7]
\* a datagram with the query id whose shortinfo block does not parse
Malformed == [uid |-> 0, fam |-> 0, addr |-> 6]
\* a datagram with the query id whose stream info does not match the query
NoMatch == [uid |-> 0, fam |-> 0, addr |-> 5]
\* the datagrams handle_receive_outcome does not put into the result map
Swallowed == {Junk, StaleReply, Malformed, NoMatch}

\* the receive fails with an error other than operation_aborted,
\* not_connected and not_socket
RecvError == [uid |-> 0, fam |-> 0, addr |-> 8]
\* the receive fails with not_connected, or with not_socket
NotConnected == [uid |-> 0, fam |-> 0, addr |-> 4]
NotSocket == [uid |-> 0, fam |-> 0, addr |-> 3]
\* the error code a failed receive completes with
Failure(r) ==
    CASE r = RecvError -> "error"
      [] r = NotConnected -> "not_connected"
      [] r = NotSocket -> "not_socket"
      [] OTHER -> "ok"
\* the error codes on which handle_receive_outcome returns at once
Dead == {"aborted", "not_connected", "not_socket"}
\* the default max_results of results() (4294967295 in the source; the largest
\* integer the model checker represents stands for it)
AllResults == 2147483647
\* std::numeric_limits<int>::max()
IntMax == 2147483647
MaxResults == {1, AllResults}

VARIABLES
    now,              \* lsl_clock() / steady clock
    scn,              \* the scenario: configuration, network and arguments (fixed)
    cancelled_,       \* resolver_impl::cancelled_
    forget_after_,    \* resolver_impl::forget_after_
    current_resolve,  \* id of the current attempt, 0 = null
    background_io_,   \* id of the attempt the background thread runs, 0 = null
    at,               \* the resolve_attempt current_resolve points to
    old,              \* summaries of the attempts the resolver has dropped
    results_mut_,     \* owner of resolve_attempt::results_mut_
    pc,               \* caller thread
    err,              \* outcome of the caller's last call
    call,             \* arguments and start time of the last resolve_oneshot
    output,           \* return value of the last resolve_oneshot
    fpc,              \* foreign thread
    ncancel,          \* number of cancel() calls issued by the foreign thread
    rcall,            \* the running results() call: max_results, expired_before
    rout,             \* return value of the last results()
    sb,               \* a cancellable_streambuf: its fields, socket and io_context
    io,               \* the thread that reads, writes and connects through sb
    cn,               \* the thread that calls sb.cancel()
    ss,               \* a client_session of the tcp_server
    tcp,              \* the tcp_server
    sy                \* the server's sync_transfer_handler

vars == << now, scn, cancelled_, forget_after_, current_resolve, background_io_,
           at, old, results_mut_, pc, err, call, output, fpc, ncancel, rcall, rout,
           sb, io, cn, ss, tcp, sy >>

Min(a, b) == IF a < b THEN a ELSE b

\* ------------------------------------------------------ resolve_attempt
NoWait == [exp |-> -1, s |-> 0, delay |-> 0]
NoRep == [uid |-> 0, fam |-> 0, addr |-> 0]
Wait(exp, s, delay) == [exp |-> Min(exp, MaxTime + 1), s |-> s, delay |-> delay]
Absent == [v4 |-> 0, v6 |-> 0, last |-> -1]
NoFirst == [u \in UIDs |-> [f \in Fams |-> 0]]

\* history of the query waves, kept beside the program's state: when each
\* class ("u" unicast, "m" multicast) last sent, the class of the latest
\* wave, and how many waves of that class have followed each other (up to
\* 2).  Datagrams of one class sent at the same time are one wave.
NoWaves == [k \in {"u", "m"} |-> -1]
NoteWave(a, k, t) ==
    IF a.wave_t[k] = t THEN a
    ELSE [a EXCEPT !.wave_t[k] = t,
                   !.lastw = k,
                   !.streak = IF a.lastw = k THEN 2 ELSE 1]

\* a completion handler that is ready to run
H(k, s, e, rep, d) == [k |-> k, s |-> s, err |-> e, rep |-> rep, d |-> d]

\* number of mcast_senders the constructor builds: the broadcast sender (kept
\* when its first send succeeded) and the IPv4 multicast sender (kept when a
\* group was joined); the constructor's loop never reaches IPv6 (i < 1)
NumMcast(c) == (IF c.bcast THEN 1 ELSE 0) + (IF c.mc4 THEN 1 ELSE 0)

\* resolve_attempt::resolve_attempt and the member initialisers
NewAttempt(id, c) ==
    [ id |-> id,
      minimum_ |-> 0,
      resolve_atleast_until_ |-> 0,
      cancel_after_ |-> 0,
      cancelled_ |-> FALSE,
      recv_open |-> TRUE,
      recv_pending |-> FALSE, receives |-> 0,
      ucast |-> c.ucast,
      ucast_open |-> c.ucast,
      mcast |-> NumMcast(c),
      mcast_open |-> 1 .. NumMcast(c),
      unicast_timer_ |-> NoWait,
      multicast_timer_ |-> NoWait,
      cancel_timer_ |-> NoWait,
      ready |-> {},
      posted |-> 0,
      loop |-> "idle",
      results_ |-> [u \in UIDs |-> Absent],
      moved |-> FALSE,
      sent |-> IF c.bcast THEN {1} ELSE {},
      late |-> {}, swallowed |-> FALSE,
      order |-> IF c.bcast THEN << 1 >> ELSE << >>,
      first |-> NoFirst,
      firstIn |-> NoFirst,
      wave_t |-> NoWaves,
      lastw |-> "none",
      streak |-> 0 ]

NullAttempt == NewAttempt(0, [ucast |-> FALSE, bcast |-> FALSE, mc4 |-> FALSE])

\* resolve_query_sender::send_query on sender s: a datagram leaves when the
\* sender's socket is open (send_to on a closed socket fails).  sent and late
\* record which senders have sent, and which have sent after do_cancel ran.
\* (swallowed, set by the receive handler, records that a datagram was
\* received and not accepted.)  order lists the senders of the attempt's
\* first datagrams in the order they were sent: one entry per sender and one
\* more.
SenderOpen(a, s) == IF s = 0 THEN a.ucast_open ELSE s \in a.mcast_open

NumSenders(a) == (IF a.ucast THEN 1 ELSE 0) + a.mcast

send_query(a, s, t) ==
    IF SenderOpen(a, s)
    THEN NoteWave([a EXCEPT !.sent = @ \cup {s},
                            !.late = IF a.cancelled_ THEN @ \cup {s} ELSE @,
                            !.order = IF Len(@) <= NumSenders(a)
                                      THEN Append(@, s) ELSE @],
                  IF s = 0 THEN "u" ELSE "m", t)
    ELSE a

\* steady_timer::expires_after followed by async_wait: a wait that is still
\* pending on the timer is cancelled (its handler becomes ready with
\* operation_aborted) and the new wait is armed.
Aborted(k, w) == IF w = NoWait THEN {} ELSE {H(k, w.s, "aborted", NoRep, w.delay)}

\* resolve_attempt::schedule_packet_burst; tm is "u" (unicast_timer_) or
\* "m" (multicast_timer_)
schedule_packet_burst(a, tm, delay, s, t) ==
    IF a.cancelled_ THEN a
    ELSE IF tm = "u"
         THEN [a EXCEPT !.ready = @ \cup Aborted("u", a.unicast_timer_),
                        !.unicast_timer_ = Wait(t + delay, s, delay)]
         ELSE [a EXCEPT !.ready = @ \cup Aborted("m", a.multicast_timer_),
                        !.multicast_timer_ = Wait(t + delay, s, delay)]

\* resolve_attempt::receive_next_result: one more async_receive_from is
\* outstanding on recv_socket_ (receives counts them until their handler
\* has run)
receive_next_result(a) == [a EXCEPT !.recv_pending = TRUE, !.receives = @ + 1]

\* the loop over mcast_senders at the end of setup_handlers
RECURSIVE McastBurst(_, _, _, _)
McastBurst(a, s, multicast_wait, t) ==
    IF s > a.mcast THEN a
    ELSE McastBurst(send_query(schedule_packet_burst(a, "m", multicast_wait, s, t), s, t),
                    s + 1, multicast_wait, t)

\* as setup_handlers, but the multicast wave is not delayed by unicast_min_rtt
setup_handlersNoOffset(a, unicast_wait, multicast_wait, cancel_after, t) ==
    LET a1 == receive_next_result(a)
        a2 == [a1 EXCEPT !.cancel_after_ = t + cancel_after,
                         !.cancel_timer_ = IF cancel_after < FOREVER
                                           THEN Wait(t + cancel_after, 0, 0)
                                           ELSE NoWait]
        a3 == IF a2.ucast
              THEN send_query(schedule_packet_burst(a2, "u", unicast_wait, 0, t), 0, t)
              ELSE a2
    IN  McastBurst(a3, 1, multicast_wait, t)

\* as setup_handlers, but the burst goes to the mcast_senders first
setup_handlersMcastFirst(a, unicast_wait, multicast_wait, cancel_after, t) ==
    LET a1 == receive_next_result(a)
        a2 == [a1 EXCEPT !.cancel_after_ = t + cancel_after,
                         !.cancel_timer_ = IF cancel_after < FOREVER
                                           THEN Wait(t + cancel_after, 0, 0)
                                           ELSE NoWait]
        mw == IF a2.ucast THEN multicast_wait + UnicastMinRtt ELSE multicast_wait
        a3 == McastBurst(a2, 1, mw, t)
    IN  IF a3.ucast
        THEN send_query(schedule_packet_burst(a3, "u", unicast_wait, 0, t), 0, t)
        ELSE a3

\* resolve_attempt::setup_handlers
setup_handlers(a, unicast_wait, multicast_wait, cancel_after, t) ==
    LET a1 == receive_next_result(a)
        a2 == [a1 EXCEPT !.cancel_after_ = t + cancel_after,
                         !.cancel_timer_ = IF cancel_after < FOREVER
                                           THEN Wait(t + cancel_after, 0, 0)
                                           ELSE NoWait]
        a3 == IF a2.ucast
              THEN send_query(schedule_packet_burst(a2, "u", unicast_wait, 0, t), 0, t)
              ELSE a2
        mw == IF a2.ucast THEN multicast_wait + UnicastMinRtt ELSE multicast_wait
    IN  McastBurst(a3, 1, mw, t)

\* as do_cancel, but the receive socket stays open
do_cancelKeepsReceiving(a) ==
    [a EXCEPT !.cancelled_ = TRUE,
              !.ready = @ \cup Aborted("c", a.cancel_timer_)
                          \cup Aborted("u", a.unicast_timer_)
                          \cup Aborted("m", a.multicast_timer_),
              !.cancel_timer_ = NoWait,
              !.unicast_timer_ = NoWait,
              !.multicast_timer_ = NoWait,
              !.mcast_open = {}]

\* resolve_attempt::do_cancel: timer::cancel completes the pending waits
\* with operation_aborted, closing the receive socket completes the pending
\* receive with operation_aborted.  The unicast sender is not closed.
do_cancel(a) ==
    [a EXCEPT !.cancelled_ = TRUE,
              !.ready = @ \cup Aborted("c", a.cancel_timer_)
                          \cup Aborted("u", a.unicast_timer_)
                          \cup Aborted("m", a.multicast_timer_)
                          \cup (IF a.recv_pending
                                THEN {H("recv", 0, "aborted", NoRep, 0)} ELSE {}),
              !.cancel_timer_ = NoWait,
              !.unicast_timer_ = NoWait,
              !.multicast_timer_ = NoWait,
              !.mcast_open = {},
              !.recv_open = FALSE,
              !.recv_pending = FALSE]

Size(res) == Cardinality({u \in UIDs : res[u] # Absent})

\* as is_done, but the minimum time is not waited for
is_doneNoMinimumTime(a, t) ==
    IF a.cancelled_ THEN TRUE
    ELSE IF t > a.cancel_after_ THEN TRUE
    ELSE IF a.minimum_ = 0 THEN FALSE
    ELSE Size(a.results_) >= a.minimum_

\* as is_done, but a minimum of 0 is compared like any other
is_doneZeroMinimum(a, t) ==
    IF a.cancelled_ THEN TRUE
    ELSE IF t > a.cancel_after_ THEN TRUE
    ELSE Size(a.results_) >= a.minimum_ /\ t >= a.resolve_atleast_until_

\* as is_done, but the deadline alone ends the attempt
is_doneDeadlineOnly(a, t) ==
    IF a.cancelled_ THEN TRUE ELSE t > a.cancel_after_

\* resolve_attempt::is_done
is_done(a, t) ==
    IF a.cancelled_ THEN TRUE
    ELSE IF t > a.cancel_after_ THEN TRUE
    ELSE IF a.minimum_ = 0 THEN FALSE
    ELSE Size(a.results_) >= a.minimum_ /\ t >= a.resolve_atleast_until_

\* is_done takes results_mut_ only when it gets to the size check
IsDoneLocks(a, t) == ~a.cancelled_ /\ ~(t > a.cancel_after_) /\ a.minimum_ # 0

\* as UpdateResults, but a later reply overwrites the stored address
UpdateResultsOverwrite(res, rep, t) ==
    LET e0 == IF res[rep.uid] = Absent
              THEN [v4 |-> 0, v6 |-> 0, last |-> t]
              ELSE [res[rep.uid] EXCEPT !.last = t]
    IN  [res EXCEPT ![rep.uid] = IF rep.fam = 4 THEN [e0 EXCEPT !.v4 = rep.addr]
                                 ELSE [e0 EXCEPT !.v6 = rep.addr]]

\* as UpdateResults, but a reply for a known UID leaves last_seen alone
UpdateResultsKeepsLastSeen(res, rep, t) ==
    LET e0 == IF res[rep.uid] = Absent
              THEN [v4 |-> 0, v6 |-> 0, last |-> t]
              ELSE res[rep.uid]
        e1 == IF rep.fam = 4
              THEN (IF e0.v4 = 0 THEN [e0 EXCEPT !.v4 = rep.addr] ELSE e0)
              ELSE (IF e0.v6 = 0 THEN [e0 EXCEPT !.v6 = rep.addr] ELSE e0)
    IN  [res EXCEPT ![rep.uid] = e1]

\* the update of results_ in handle_receive_outcome: insert or refresh
\* last_seen, then fill the address of the reply's family if it is empty
UpdateResults(res, rep, t) ==
    LET e0 == IF res[rep.uid] = Absent
              THEN [v4 |-> 0, v6 |-> 0, last |-> t]
              ELSE [res[rep.uid] EXCEPT !.last = t]
        e1 == IF rep.fam = 4
              THEN (IF e0.v4 = 0 THEN [e0 EXCEPT !.v4 = rep.addr] ELSE e0)
              ELSE (IF e0.v6 = 0 THEN [e0 EXCEPT !.v6 = rep.addr] ELSE e0)
    IN  [res EXCEPT ![rep.uid] = e1]

\* history of accepted replies, kept beside the program's state: the source
\* address of the first accepted reply per UID and family since the attempt
\* started (first) and since the UID's entry was inserted (firstIn)
NoteFirst(fst, rep) ==
    IF fst[rep.uid][rep.fam] = 0 THEN [fst EXCEPT ![rep.uid][rep.fam] = rep.addr]
    ELSE fst

Accept(a, rep, t) ==
    [a EXCEPT !.results_ = UpdateResults(a.results_, rep, t),
              !.first = NoteFirst(a.first, rep),
              !.firstIn = NoteFirst(a.firstIn, rep)]

\* as handle_receive_outcome, but the next receive is posted whether or
\* not the attempt is done
handle_receive_outcomeReceivesOn(a, h, t) ==
    IF a.cancelled_ \/ h.err \in Dead THEN a
    ELSE LET a1 == IF h.err # "ok" THEN a
                   ELSE IF h.rep \in Swallowed THEN [a EXCEPT !.swallowed = TRUE]
                   ELSE Accept(a, h.rep, t)
         IN  receive_next_result(IF is_done(a1, t) THEN do_cancel(a1) ELSE a1)

\* as handle_receive_outcome, but a datagram that is not accepted ends the
\* receive loop
handle_receive_outcomeStopsOnJunk(a, h, t) ==
    IF a.cancelled_ \/ h.err \in Dead \/ (h.err = "ok" /\ h.rep \in Swallowed) THEN a
    ELSE LET a1 == IF h.err = "ok" THEN Accept(a, h.rep, t) ELSE a
         IN  IF is_done(a1, t) THEN do_cancel(a1) ELSE receive_next_result(a1)

\* resolve_attempt::handle_receive_outcome
handle_receive_outcome(a, h, t) ==
    IF a.cancelled_ \/ h.err \in Dead THEN a
    ELSE LET a1 == IF h.err # "ok" THEN a
                   ELSE IF h.rep \in Swallowed THEN [a EXCEPT !.swallowed = TRUE]
                   ELSE Accept(a, h.rep, t)
         IN  IF is_done(a1, t) THEN do_cancel(a1) ELSE receive_next_result(a1)

\* as ReceiveLocks, but the receive handler never takes results_mut_
ReceiveLocksNothing(a, h, t) == FALSE

\* handle_receive_outcome locks results_mut_ for the update and in is_done
ReceiveLocks(a, h, t) ==
    /\ ~(a.cancelled_ \/ h.err \in Dead)
    /\ (h.err = "ok" /\ h.rep \notin Swallowed) \/ IsDoneLocks(a, t)

\* as wave_handler, but every wave also posts a receive
wave_handlerReceives(a, h, t) ==
    IF h.err # "aborted"
    THEN receive_next_result(schedule_packet_burst(send_query(a, h.s, t), h.k, h.d, h.s, t))
    ELSE a

\* the wait handler of schedule_packet_burst
wave_handler(a, h, t) ==
    IF h.err # "aborted"
    THEN schedule_packet_burst(send_query(a, h.s, t), h.k, h.d, h.s, t)
    ELSE a

\* the wait handler of cancel_timer_ (setup_handlers)
cancel_timer_handler(a, h) == IF h.err = "ok" THEN do_cancel(a) ELSE a

\* what is left of an attempt after the resolver dropped its pointer
HasWork(a) ==
    \/ a.recv_pending \/ a.ready # {} \/ a.posted > 0
    \/ a.unicast_timer_ # NoWait \/ a.multicast_timer_ # NoWait
    \/ a.cancel_timer_ # NoWait

Summary(a) ==
    [ id |-> a.id, cancelled_ |-> a.cancelled_, loop |-> a.loop,
      recv_open |-> a.recv_open, ucast_open |-> a.ucast_open,
      mcast_open |-> a.mcast_open, work |-> HasWork(a), posted |-> a.posted ]

\* ------------------------------------------------------------- Init
\* the senders the configuration gives an attempt (known peers, broadcast
\* targets, IPv4 multicast groups)
Senders(u, b, m) == [ucast |-> u, bcast |-> b, mc4 |-> m]

\* A scenario fixes what the model draws its inputs from: the configured
\* senders, the outcomes a receive can have, and the arguments the caller
\* passes to resolve_oneshot and resolve_continuous.
Scenario(c, net, mins, tos, mts, fas, na, nc) ==
    [cfg |-> c, net |-> net, minimums |-> mins, timeouts |-> tos,
     minimum_times |-> mts, forget_afters |-> fas, attempts |-> na,
     cancels |-> nc]
\* after_cancel notes whether a cancel() had returned when the call was made
NoCall == [op |-> "none", query |-> "none", minimum |-> 0, timeout |-> 0,
           minimum_time |-> 0, t0 |-> 0, after_cancel |-> FALSE]
NoRCall == [t |-> 0, expired_before |-> 0]

\* cancellable_streambuf after construction: not cancelled, no error, socket
\* not open, nothing queued in the private io_context.  pending lists the
\* asynchronous operations the socket has outstanding, queue the handlers
\* that are ready to run, in the order they were queued.
NewStreambuf ==
    [cancelled_ |-> FALSE, ec_ |-> "ok", is_open |-> FALSE,
     mutex_io_ctx_ |-> "free", pending |-> << >>, queue |-> << >>]
\* the stream's user: op is the call in progress, ret what run_io_ctx
\* returned, result what the last call reported; nops counts the calls.
\* transferred notes whether the call's own completion handler ran without
\* error, after_cancel whether a cancel() had returned when the call began.
IoIdle ==
    [pc |-> "idle", op |-> "none", ret |-> TRUE, result |-> "none", nops |-> 0,
     transferred |-> FALSE, after_cancel |-> FALSE]
\* the cancelling thread: issued and returned count its cancel() calls;
\* path is the way the last cancel() took: "direct", "post" or "recheck"
CnIdle == [pc |-> "idle", issued |-> 0, returned |-> 0, path |-> "none"]
\* no connection accepted yet
NoSession == [pc |-> "none"]
\* no tcp_server has been built
NoServer == [pc |-> "none"]
\* sync_transfer_handler after construction.
\* sync_sockets_ is the vector of sockets (id, open), capacity its
\* allocated size, posted the functions queued in io_ctx_, writes the
\* pending async_write operations of write_all_blocking (each handler holds
\* a reference to its element of sync_sockets_; dangling notes that the
\* vector has been reallocated since), result the error code the last
\* write_all_blocking saw per socket, rounds the number of calls that have
\* returned.  History: handoff[id] is the number of calls that had started
\* when socket id was handed over, issued the writes issued (socket, call),
\* failed the sockets a write to which has failed.
NewSync ==
    [pc |-> "idle", sync_sockets_ |-> << >>, capacity |-> 0, posted |-> << >>,
     writes |-> {}, any_session_broken |-> FALSE, next |-> 1,
     result |-> << >>, rounds |-> 0,
     handoff |-> << >>, issued |-> {}, failed |-> {}]

\* the number of write_all_blocking calls that have started
Started(y) == y.rounds + (IF y.pc = "idle" THEN 0 ELSE 1)

InitIn(scenarios) ==
    /\ now = 0
    /\ scn \in scenarios
    /\ cancelled_ = FALSE
    /\ forget_after_ = FOREVER
    /\ current_resolve = 0
    /\ background_io_ = 0
    /\ at = NullAttempt
    /\ old = << >>
    /\ results_mut_ = "free"
    /\ pc = "idle"
    /\ err = "none"
    /\ call = NoCall
    /\ output = << >>
    /\ fpc = "idle"
    /\ ncancel = 0
    /\ rcall = NoRCall
    /\ rout = << >>
    /\ sb = NewStreambuf
    /\ io = IoIdle
    /\ cn = CnIdle
    /\ ss = NoSession
    /\ tcp = NoServer
    /\ sy = NewSync

resolver == << cancelled_, forget_after_, current_resolve, background_io_ >>
caller == << pc, err, call, output >>
foreign == << fpc, ncancel, rcall, rout >>
streambuf == << sb, io, cn >>
\* the objects the resolver's operations do not touch
server == << ss, tcp, sy >>
rest == << streambuf, server >>

\* ----------------------------------------------- the attempt's io_context
Running == current_resolve # 0 /\ at.loop = "running"

\* the clock advances
Tick ==
    /\ now < MaxTime
    /\ pc # "destroyed"
    /\ now' = now + 1
    /\ UNCHANGED << scn, rest, resolver, at, old, results_mut_, caller, foreign >>

\* the reactor finds an expired timer: its wait handler becomes ready with
\* success and can no longer be cancelled
TimerDue ==
    /\ Running
    /\ \E k \in {"u", "m", "c"} :
          LET w == IF k = "u" THEN at.unicast_timer_
                   ELSE IF k = "m" THEN at.multicast_timer_ ELSE at.cancel_timer_
          IN  /\ w # NoWait
              /\ w.exp <= now
              /\ at' = [at EXCEPT
                          !.ready = @ \cup {H(k, w.s, "ok", NoRep, w.delay)},
                          !.unicast_timer_ = IF k = "u" THEN NoWait ELSE @,
                          !.multicast_timer_ = IF k = "m" THEN NoWait ELSE @,
                          !.cancel_timer_ = IF k = "c" THEN NoWait ELSE @]
    /\ UNCHANGED << now, scn, rest, resolver, old, results_mut_, caller, foreign >>

\* the pending async_receive_from completes: a datagram arrived (an accepted
\* reply or junk) or the receive failed
Arrive ==
    /\ Running
    /\ at.recv_pending /\ at.recv_open
    /\ \E r \in scn.net :
          LET h == IF Failure(r) # "ok" THEN H("recv", 0, Failure(r), NoRep, 0)
                   ELSE H("recv", 0, "ok", r, 0)
          IN  at' = [at EXCEPT !.ready = @ \cup {h}, !.recv_pending = FALSE]
    /\ UNCHANGED << now, scn, rest, resolver, old, results_mut_, caller, foreign >>

\* the loop runs a ready receive handler
RunReceive ==
    /\ Running
    /\ \E h \in at.ready :
          /\ h.k = "recv"
          /\ ReceiveLocks(at, h, now) => results_mut_ = "free"
          /\ at' = handle_receive_outcome(
                       [at EXCEPT !.ready = @ \ {h}, !.receives = @ - 1], h, now)
    /\ UNCHANGED << now, scn, rest, resolver, old, results_mut_, caller, foreign >>

\* the loop runs a ready wave-timer handler
RunWave ==
    /\ Running
    /\ \E h \in at.ready :
          /\ h.k \in {"u", "m"}
          /\ at' = wave_handler([at EXCEPT !.ready = @ \ {h}], h, now)
    /\ UNCHANGED << now, scn, rest, resolver, old, results_mut_, caller, foreign >>

\* the loop runs the ready cancel-timer handler
RunCancelTimer ==
    /\ Running
    /\ \E h \in at.ready :
          /\ h.k = "c"
          /\ at' = cancel_timer_handler([at EXCEPT !.ready = @ \ {h}], h)
    /\ UNCHANGED << now, scn, rest, resolver, old, results_mut_, caller, foreign >>

\* the loop runs a function posted by resolve_attempt::cancel
RunPosted ==
    /\ Running
    /\ at.posted > 0
    /\ at' = do_cancel([at EXCEPT !.posted = @ - 1])
    /\ UNCHANGED << now, scn, rest, resolver, old, results_mut_, caller, foreign >>

\* io_context::run returns when there is no work left
LoopExit ==
    /\ Running
    /\ ~HasWork(at)
    /\ at' = [at EXCEPT !.loop = "finished"]
    /\ UNCHANGED << now, scn, rest, resolver, old, results_mut_, caller, foreign >>

\* ------------------------------------------------------- resolver_impl
NumAttempts == Len(old) + (IF current_resolve # 0 THEN 1 ELSE 0)

\* as check_query, but nothing is rejected
check_queryAcceptsAll(q) == TRUE

\* check_query: the query parses as an XPath expression
check_query(q) == q = "good"

\* the records of results_ in key order, as resolve_oneshot and results()
\* iterate the map
RECURSIVE Collect(_, _)
Collect(res, u) ==
    IF u \notin UIDs THEN << >>
    ELSE IF res[u] = Absent THEN Collect(res, u + 1)
    ELSE << [uid |-> u, v4 |-> res[u].v4, v6 |-> res[u].v6] >> \o Collect(res, u + 1)

\* a stream_info after std::move took its content, when the move empties it
MovedFrom(e) == IF e = Absent THEN e ELSE [e EXCEPT !.v4 = 0, !.v6 = 0]

\* current_resolve = create_attempt(query): the resolver drops the attempt
\* it pointed to
DropCurrent == IF current_resolve # 0 THEN Append(old, Summary(at)) ELSE old

\* as ContinuousRunning, but the check is missing
ContinuousRunningUnchecked == FALSE

\* if (background_io_) throw "Resolver is already running in continuous mode"
ContinuousRunning == background_io_ # 0

\* resolve_oneshot up to the assignment of the query parameters
OneshotCall ==
    /\ pc = "idle"
    /\ fpc # "r_loop"
    /\ \E q \in {"good", "bad"}, mi \in scn.minimums, to \in scn.timeouts,
          mt \in scn.minimum_times :
          IF ContinuousRunning
          THEN /\ pc' = "threw"
               /\ err' = "AlreadyRunning"
               /\ call' = [NoCall EXCEPT !.op = "oneshot", !.query = q, !.t0 = now]
               /\ UNCHANGED << current_resolve, at, old >>
          ELSE IF ~check_query(q)
          THEN /\ pc' = "threw"
               /\ err' = "InvalidQuery"
               /\ call' = [NoCall EXCEPT !.op = "oneshot", !.query = q, !.t0 = now]
               /\ UNCHANGED << current_resolve, at, old >>
          ELSE /\ NumAttempts < scn.attempts
               /\ current_resolve' = NumAttempts + 1
               /\ old' = DropCurrent
               /\ at' = [NewAttempt(NumAttempts + 1, scn.cfg) EXCEPT
                            !.minimum_ = mi,
                            !.resolve_atleast_until_ = now + mt]
               /\ pc' = "os_setup"
               /\ err' = "none"
               /\ call' = [op |-> "oneshot", query |-> q, minimum |-> mi,
                           timeout |-> to, minimum_time |-> mt, t0 |-> now,
                           after_cancel |-> cancelled_ /\ fpc = "idle"]
    /\ UNCHANGED << now, scn, rest, cancelled_, forget_after_, background_io_,
                    results_mut_, output, foreign >>

\* resolve_oneshot: current_resolve->setup_handlers(...)
OneshotSetup ==
    /\ pc = "os_setup"
    /\ at' = setup_handlers(at, UnicastMinRtt, MulticastMinRtt, call.timeout, now)
    /\ pc' = "os_check"
    /\ UNCHANGED << now, scn, rest, resolver, old, results_mut_, err, call, output,
                    foreign >>

\* resolve_oneshot: if (!cancelled_) at.io_.run(), else return no results
OneshotCheck ==
    /\ pc = "os_check"
    /\ IF cancelled_
       THEN /\ pc' = "os_ret"
            /\ output' = << >>
            /\ at' = at
       ELSE /\ pc' = "os_run"
            /\ output' = output
            /\ at' = [at EXCEPT !.loop = "running"]
    /\ UNCHANGED << now, scn, rest, resolver, old, results_mut_, err, call, foreign >>

\* resolve_oneshot: io_.run() has returned; the results are moved out of
\* results_ without the mutex.  What a moved-from stream_info holds is
\* unspecified: it keeps its content or is emptied.
OneshotCollect ==
    /\ pc = "os_run"
    /\ at.loop = "finished"
    /\ output' = Collect(at.results_, 1)
    /\ \E keep \in BOOLEAN :
          at' = [at EXCEPT !.moved = TRUE,
                           !.results_ = IF keep THEN @
                                        ELSE [u \in UIDs |-> MovedFrom(@[u])]]
    /\ pc' = "os_ret"
    /\ UNCHANGED << now, scn, rest, resolver, old, results_mut_, err, call, foreign >>

\* the caller takes the return value of resolve_oneshot
OneshotReturn ==
    /\ pc = "os_ret"
    /\ pc' = "idle"
    /\ output' = << >>
    /\ call' = NoCall
    /\ UNCHANGED << now, scn, rest, resolver, at, old, results_mut_, err, foreign >>

\* resolve_continuous up to setup_handlers
ContinuousCall ==
    /\ pc = "idle"
    /\ fpc # "r_loop"
    /\ \E q \in {"good", "bad"}, fa \in scn.forget_afters :
          IF ContinuousRunning
          THEN /\ pc' = "threw"
               /\ err' = "AlreadyRunning"
               /\ call' = [NoCall EXCEPT !.op = "continuous", !.query = q, !.t0 = now]
               /\ UNCHANGED << forget_after_, current_resolve, at, old >>
          ELSE IF ~check_query(q)
          THEN /\ pc' = "threw"
               /\ err' = "InvalidQuery"
               /\ call' = [NoCall EXCEPT !.op = "continuous", !.query = q, !.t0 = now]
               /\ UNCHANGED << forget_after_, current_resolve, at, old >>
          ELSE /\ NumAttempts < scn.attempts
               /\ forget_after_' = fa
               /\ current_resolve' = NumAttempts + 1
               /\ old' = DropCurrent
               /\ at' = setup_handlers(NewAttempt(NumAttempts + 1, scn.cfg),
                           UnicastMinRtt + ContinuousResolveInterval,
                           MulticastMinRtt + ContinuousResolveInterval,
                           FOREVER, now)
               /\ pc' = "rc_spawn"
               /\ err' = "none"
               /\ call' = [NoCall EXCEPT !.op = "continuous", !.query = q,
                                         !.t0 = now,
                                         !.after_cancel = cancelled_ /\ fpc = "idle"]
    /\ UNCHANGED << now, scn, rest, cancelled_, background_io_, results_mut_, output,
                    foreign >>

\* resolve_continuous: background_io_ = thread running attempt->io_.run()
ContinuousSpawn ==
    /\ pc = "rc_spawn"
    /\ background_io_' = current_resolve
    /\ at' = [at EXCEPT !.loop = "running"]
    /\ pc' = "idle"
    /\ call' = NoCall
    /\ UNCHANGED << now, scn, rest, cancelled_, forget_after_, current_resolve, old,
                    results_mut_, err, output, foreign >>

\* the caller sees the exception of a rejected call
Catch ==
    /\ pc = "threw"
    /\ pc' = "idle"
    /\ err' = "none"
    /\ call' = NoCall
    /\ UNCHANGED << now, scn, rest, resolver, at, old, results_mut_, output, foreign >>

\* as cancel_post, but only the flag is set
cancel_postFlagOnly(a) == a

\* resolver_impl::cancel
cancel_post(a) == IF current_resolve # 0 THEN [a EXCEPT !.posted = @ + 1] ELSE a

\* ~resolver_impl: cancel()
Destroy ==
    /\ pc = "idle"
    /\ fpc = "idle"
    /\ cancelled_' = TRUE
    /\ at' = cancel_post(at)
    /\ pc' = "dtor_join"
    /\ UNCHANGED << now, scn, rest, forget_after_, current_resolve, background_io_,
                    old, results_mut_, err, call, output, foreign >>

\* ~resolver_impl: if (background_io_) background_io_->join()
DestroyJoin ==
    /\ pc = "dtor_join"
    /\ background_io_ # 0 => at.loop = "finished"
    /\ pc' = "destroyed"
    /\ UNCHANGED << now, scn, rest, resolver, at, old, results_mut_, err, call,
                    output, foreign >>

\* ------------------------------------------------------ foreign thread
Alive == pc \notin {"dtor_join", "destroyed"}

\* cancel() from another thread: cancelled_ = true
CancelFlag ==
    /\ Alive
    /\ fpc = "idle"
    /\ ncancel < scn.cancels
    /\ cancelled_' = TRUE
    /\ ncancel' = ncancel + 1
    /\ fpc' = "c_post"
    /\ UNCHANGED << now, scn, rest, forget_after_, current_resolve, background_io_,
                    at, old, results_mut_, caller, rcall, rout >>

\* cancel() from another thread: if (current_resolve) current_resolve->cancel()
CancelPost ==
    /\ fpc = "c_post"
    /\ at' = cancel_post(at)
    /\ fpc' = "idle"
    /\ UNCHANGED << now, scn, rest, resolver, old, results_mut_, caller, ncancel,
                    rcall, rout >>

\* results(): double expired_before = lsl_clock() - forget_after_
expired_before(t) == t - forget_after_

\* results(): the null check, the lock and expired_before
ResultsCall ==
    /\ Alive
    /\ fpc = "idle"
    /\ IF current_resolve = 0
       THEN /\ fpc' = "r_threw"
            /\ UNCHANGED << results_mut_, rcall >>
       ELSE /\ results_mut_ = "free"
            /\ results_mut_' = "results"
            /\ rcall' = [t |-> now, expired_before |-> expired_before(now)]
            /\ fpc' = "r_loop"
    /\ UNCHANGED << now, scn, rest, resolver, at, old, caller, ncancel, rout >>

\* as Prune, but nothing is erased
PruneNothing(res, before) == res

\* the records results() keeps, in key order, at most max_results of them
Prune(res, before) ==
    [u \in UIDs |-> IF res[u] # Absent /\ res[u].last < before THEN Absent
                    ELSE res[u]]

Truncate(sq, n) == IF Len(sq) > n THEN SubSeq(sq, 1, n) ELSE sq

\* first is per attempt, firstIn per entry of results_
ForgetErased(fst, res) ==
    [u \in UIDs |-> IF res[u] = Absent THEN [f \in Fams |-> 0] ELSE fst[u]]

\* results(): the loop over the map and the return
ResultsLoop ==
    /\ fpc = "r_loop"
    /\ LET kept == Prune(at.results_, rcall.expired_before)
       IN  /\ at' = [at EXCEPT !.results_ = kept,
                               !.firstIn = ForgetErased(@, kept)]
           /\ \E max_results \in MaxResults :
                 rout' = Truncate(Collect(kept, 1), max_results)
    /\ results_mut_' = "free"
    /\ fpc' = "r_ret"
    /\ UNCHANGED << now, scn, rest, resolver, old, caller, ncancel, rcall >>

\* the foreign caller takes the return value of results()
ResultsReturn ==
    /\ fpc = "r_ret"
    /\ fpc' = "idle"
    /\ rout' = << >>
    /\ rcall' = NoRCall
    /\ UNCHANGED << now, scn, rest, resolver, at, old, results_mut_, caller, ncancel >>

\* the foreign caller sees the logic_error of results()
ResultsCatch ==
    /\ fpc = "r_threw"
    /\ fpc' = "idle"
    /\ UNCHANGED << now, scn, rest, resolver, at, old, results_mut_, caller, ncancel,
                    rcall, rout >>

Next ==
    \/ Tick
    \/ TimerDue
    \/ Arrive
    \/ RunReceive
    \/ RunWave
    \/ RunCancelTimer
    \/ RunPosted
    \/ LoopExit
    \/ OneshotCall
    \/ OneshotSetup
    \/ OneshotCheck
    \/ OneshotCollect
    \/ OneshotReturn
    \/ ContinuousCall
    \/ ContinuousSpawn
    \/ Catch
    \/ Destroy
    \/ DestroyJoin
    \/ CancelFlag
    \/ CancelPost
    \/ ResultsCall
    \/ ResultsLoop
    \/ ResultsReturn
    \/ ResultsCatch

\* the resolver used in one-shot mode only
NextOneshot ==
    \/ Tick
    \/ TimerDue
    \/ Arrive
    \/ RunReceive
    \/ RunWave
    \/ RunCancelTimer
    \/ RunPosted
    \/ LoopExit
    \/ OneshotCall
    \/ OneshotSetup
    \/ OneshotCheck
    \/ OneshotCollect
    \/ OneshotReturn
    \/ Catch
    \/ Destroy
    \/ DestroyJoin
    \/ CancelFlag
    \/ CancelPost
    \/ ResultsCall
    \/ ResultsLoop
    \/ ResultsReturn
    \/ ResultsCatch

\* the resolver used in continuous mode only (no cancel timer is armed)
NextContinuous ==
    \/ Tick
    \/ TimerDue
    \/ Arrive
    \/ RunReceive
    \/ RunWave
    \/ RunPosted
    \/ LoopExit
    \/ ContinuousCall
    \/ ContinuousSpawn
    \/ Catch
    \/ Destroy
    \/ DestroyJoin
    \/ CancelFlag
    \/ CancelPost
    \/ ResultsCall
    \/ ResultsLoop
    \/ ResultsReturn
    \/ ResultsCatch

\* ----------------------------------------------------- specifications
R(u, f, a) == [uid |-> u, fam |-> f, addr |-> a]

\* both modes on one resolver: known peers configured, one stream that
\* answers over two IPv4 routes and one IPv6 route
BothModes ==
    Scenario(Senders(TRUE, FALSE, FALSE), {R(1, 4, 1), R(1, 4, 2), R(1, 6, 1)},
             {1}, {1}, {0}, {1}, MaxAttempts, MaxCancels)

\* one-shot resolves with every combination of minimum, timeout and
\* minimum_time, two streams
OneshotArgs ==
    Scenario(Senders(TRUE, FALSE, FALSE), {R(1, 4, 1), R(2, 4, 1), Junk, RecvError},
             {0, 1, 2}, {1, FOREVER}, {0, 2}, {FOREVER}, 1, MaxCancels)

\* continuous resolves, two streams, with and without known peers
ContinuousArgs ==
    { Scenario(c, {R(1, 4, 1), R(2, 4, 1), Junk, RecvError},
               {0}, {FOREVER}, {0}, {1, FOREVER}, 1, MaxCancels) :
        c \in {Senders(TRUE, FALSE, FALSE), Senders(FALSE, TRUE, TRUE)} }

Init == InitIn({BothModes})
Spec == Init /\ [][Next]_vars

InitOneshot == InitIn({OneshotArgs})
SpecOneshot == InitOneshot /\ [][NextOneshot]_vars

InitContinuous == InitIn(ContinuousArgs)
SpecContinuous == InitContinuous /\ [][NextContinuous]_vars

\* known peers and an IPv4 multicast group: a unicast and a multicast sender;
\* a oneshot call runs to its timeout or for ever
PeersAndMulticast ==
    Scenario(Senders(TRUE, FALSE, TRUE), {R(1, 4, 1), Junk},
             {0}, {MaxTime, FOREVER}, {0}, {FOREVER}, MaxAttempts, MaxCancels)

InitWaves == InitIn({PeersAndMulticast})
SpecWaves == InitWaves /\ [][Next]_vars

\* every kind of datagram and of failed receive, one stream
JunkOnWire ==
    Scenario(Senders(TRUE, FALSE, FALSE),
             {R(1, 4, 1), Junk, StaleReply, Malformed, NoMatch,
              RecvError, NotConnected, NotSocket},
             {0, 1}, {MaxTime, FOREVER}, {0}, {FOREVER}, 1, MaxCancels)

InitJunk == InitIn({JunkOnWire})
SpecJunk == InitJunk /\ [][Next]_vars

\* What the threads' scheduling guarantees: the io_context runs every ready
\* handler, notices every expired timer and returns when no work is left; a
\* thread that is inside resolve_oneshot, resolve_continuous, cancel(),
\* results() or the destructor goes on to its next statement.  Time and the
\* network are under no obligation.
Fairness ==
    /\ WF_vars(TimerDue)
    /\ WF_vars(RunReceive)
    /\ WF_vars(RunWave)
    /\ WF_vars(RunCancelTimer)
    /\ WF_vars(RunPosted)
    /\ WF_vars(LoopExit)
    /\ WF_vars(OneshotSetup)
    /\ WF_vars(OneshotCheck)
    /\ WF_vars(OneshotCollect)
    /\ WF_vars(ContinuousSpawn)
    /\ WF_vars(CancelPost)
    /\ WF_vars(ResultsLoop)
    /\ WF_vars(DestroyJoin)

\* one-shot resolves of two streams, with and without a minimum and a timeout
OneshotRuns ==
    Scenario(Senders(TRUE, FALSE, FALSE), {R(1, 4, 1), R(2, 4, 1), Junk},
             {0, 2}, {1, FOREVER}, {0}, {FOREVER}, 1, MaxCancels)

\* continuous resolves of one stream, with and without known peers
ContinuousRuns ==
    { Scenario(c, {R(1, 4, 1), Junk}, {0}, {FOREVER}, {0}, {1}, 1, MaxCancels) :
        c \in {Senders(TRUE, FALSE, FALSE), Senders(FALSE, TRUE, TRUE)} }

InitOneshotRuns == InitIn({OneshotRuns})
LiveOneshot ==
    InitOneshotRuns /\ [][NextOneshot]_vars /\ Fairness

InitContinuousRuns == InitIn(ContinuousRuns)
LiveContinuous ==
    InitContinuousRuns /\ [][NextContinuous]_vars /\ Fairness

\* ------------------------------------------------ cancellable_streambuf
\* One stream buffer, one thread that uses it and one thread that cancels
\* it.  A statement of the source is one step, so that the other thread can
\* run between any two of them.
MaxOps == 2
MaxStreamCancels == 1
MaxSamples == 1
MaxSockets == 3
MaxRounds == 2

Done(ec, more) == [k |-> "done", ec |-> ec, more |-> more]
PostedClose == [k |-> "close_if_open", ec |-> "ok", more |-> FALSE]

\* basic_socket::close: the descriptor is released and every outstanding
\* operation completes with operation_aborted
socket_close(s) ==
    [s EXCEPT !.is_open = FALSE, !.pending = << >>,
              !.queue = @ \o [i \in 1 .. Len(s.pending) |-> Done("aborted", FALSE)]]

\* cancelled_ = true; socket().shutdown(shutdown_both, ec_);
\* socket().close(ec_): ec_ is left with the outcome of close
close_if_open(s) == [socket_close(s) EXCEPT !.cancelled_ = TRUE, !.ec_ = "ok"]

\* socket().async_receive / asio::async_write: on a closed socket the
\* handler is queued at once with bad_descriptor
async_start(s, kind) ==
    IF s.is_open THEN [s EXCEPT !.pending = Append(@, kind)]
    ELSE [s EXCEPT !.queue = Append(@, Done("err", FALSE))]

\* socket().async_connect opens the socket when it is not open
async_connect(s) == [s EXCEPT !.is_open = TRUE, !.pending = Append(@, "connect")]

Begin(op, where) ==
    [io EXCEPT !.pc = where, !.op = op, !.ret = TRUE, !.result = "none",
               !.transferred = FALSE, !.after_cancel = cn.returned > 0]

\* connect(): a cancelled stream throws std::logic_error
Connect ==
    /\ io.pc = "idle" /\ io.nops < MaxOps
    /\ io' = IF sb.cancelled_
             THEN [Begin("connect", "idle") EXCEPT !.result = "threw", !.nops = @ + 1]
             ELSE Begin("connect", "connect_close")
    /\ UNCHANGED << now, scn, resolver, at, old, results_mut_, caller, foreign, sb, cn, server >>

\* init_buffers(); socket().close(ec_)
ConnectClose ==
    /\ io.pc = "connect_close"
    /\ sb' = [socket_close(sb) EXCEPT !.ec_ = "ok"]
    /\ io' = [io EXCEPT !.pc = "connect_async"]
    /\ UNCHANGED << now, scn, resolver, at, old, results_mut_, caller, foreign, cn, server >>

ConnectAsync ==
    /\ io.pc = "connect_async"
    /\ sb' = async_connect(sb)
    /\ io' = [io EXCEPT !.pc = "enter"]
    /\ UNCHANGED << now, scn, resolver, at, old, results_mut_, caller, foreign, cn, server >>

\* recv(), reached from underflow and xsgetn: start the receive
Read ==
    /\ io.pc = "idle" /\ io.nops < MaxOps
    /\ sb' = async_start(sb, "read")
    /\ io' = Begin("read", "enter")
    /\ UNCHANGED << now, scn, resolver, at, old, results_mut_, caller, foreign, cn, server >>

\* overflow(), reached from sync, close and the destructor: start the write
Write ==
    /\ io.pc = "idle" /\ io.nops < MaxOps
    /\ sb' = async_start(sb, "write")
    /\ io' = Begin("write", "enter")
    /\ UNCHANGED << now, scn, resolver, at, old, results_mut_, caller, foreign, cn, server >>

\* run_io_ctx entry: lock mutex_io_ctx_, clear ec_, restart the io_context
Enter ==
    /\ io.pc = "enter"
    /\ sb.mutex_io_ctx_ = "free"
    /\ sb' = [sb EXCEPT !.mutex_io_ctx_ = "io", !.ec_ = "ok"]
    /\ io' = [io EXCEPT !.pc = "run_one"]
    /\ UNCHANGED << now, scn, resolver, at, old, results_mut_, caller, foreign, cn, server >>

\* the handler the io_context runs: the posted close_if_open, or the
\* completion handler of connect, recv or overflow, which stores the error
\* code; async_receive_all starts another receive while bytes are missing
run_handler(s, h) ==
    IF h.k = "close_if_open" THEN close_if_open(s)
    ELSE [(IF h.more THEN async_start(s, "read") ELSE s) EXCEPT !.ec_ = h.ec]

\* one turn of the loop in run_io_ctx: run_one() blocks while an operation
\* is outstanding and nothing is ready, returns 0 when no work is left;
\* after a handler the loop ends if cancelled_ or ec_ is set
RunOne ==
    /\ io.pc = "run_one"
    /\ IF sb.queue # << >>
       THEN LET h == Head(sb.queue)
                s == run_handler([sb EXCEPT !.queue = Tail(@)], h)
                stop == s.cancelled_ \/ s.ec_ # "ok"
            IN  /\ sb' = IF stop THEN [s EXCEPT !.mutex_io_ctx_ = "free"] ELSE s
                /\ io' = [io EXCEPT !.pc = IF stop THEN "after" ELSE "run_one",
                                    !.ret = ~stop]
       ELSE /\ sb.pending = << >>
            /\ sb' = [sb EXCEPT !.mutex_io_ctx_ = "free"]
            /\ io' = [io EXCEPT !.pc = "after", !.ret = TRUE]
    /\ UNCHANGED << now, scn, resolver, at, old, results_mut_, caller, foreign, cn, server >>

\* what the call reports once run_io_ctx is back: connect tests ec_, recv
\* tests run_io_ctx's result, overflow tests ec_
Outcome(op, ret, ec) ==
    CASE op = "connect" -> IF ec = "ok" THEN "ok" ELSE "fail"
      [] op = "read" -> IF ret THEN "ok" ELSE "fail"
      [] OTHER -> IF ec = "ok" THEN "ok" ELSE "fail"

Return ==
    /\ io.pc = "after"
    /\ io' = [io EXCEPT !.pc = "idle", !.nops = @ + 1,
                        !.result = Outcome(io.op, io.ret, sb.ec_)]
    /\ UNCHANGED << now, scn, resolver, at, old, results_mut_, caller, foreign, sb, cn, server >>

Without(q, i) == [j \in 1 .. Len(q) - 1 |-> IF j < i THEN q[j] ELSE q[j + 1]]

\* the network completes an outstanding operation, with or without an
\* error; a receive may deliver fewer bytes than asked for
Transfer ==
    /\ \E i \in 1 .. Len(sb.pending) :
       \E h \in {Done("ok", FALSE), Done("err", FALSE)} \cup
                (IF sb.pending[i] = "read" THEN {Done("ok", TRUE)} ELSE {}) :
          /\ sb' = [sb EXCEPT !.pending = Without(@, i), !.queue = Append(@, h)]
          /\ io' = [io EXCEPT !.transferred = @ \/ (h.ec = "ok" /\ ~h.more)]
    /\ UNCHANGED << now, scn, resolver, at, old, results_mut_, caller, foreign, cn, server >>

try_lockIgnoresOwner(s) == TRUE

\* std::unique_lock::try_lock on mutex_io_ctx_
try_lock(s) == s.mutex_io_ctx_ = "free"

\* cancel(): try to take mutex_io_ctx_
StreamCancel ==
    /\ cn.pc = "idle" /\ cn.issued < MaxStreamCancels
    /\ IF try_lock(sb)
       THEN /\ sb' = [sb EXCEPT !.mutex_io_ctx_ = "cancel"]
            /\ cn' = [cn EXCEPT !.pc = "direct", !.issued = @ + 1]
       ELSE /\ sb' = sb
            /\ cn' = [cn EXCEPT !.pc = "post", !.issued = @ + 1]
    /\ UNCHANGED << now, scn, resolver, at, old, results_mut_, caller, foreign, io, server >>

\* the lock was free: close_if_open() and return, releasing the lock
StreamCancelDirect ==
    /\ cn.pc = "direct"
    /\ sb' = [close_if_open(sb) EXCEPT !.mutex_io_ctx_ = "free"]
    /\ cn' = [cn EXCEPT !.pc = "idle", !.returned = @ + 1, !.path = "direct"]
    /\ UNCHANGED << now, scn, resolver, at, old, results_mut_, caller, foreign, io, server >>

\* the lock was taken: asio::post(as_context(), close_if_open)
StreamCancelPost ==
    /\ cn.pc = "post"
    /\ sb' = [sb EXCEPT !.queue = Append(@, PostedClose)]
    /\ cn' = [cn EXCEPT !.pc = "lock"]
    /\ UNCHANGED << now, scn, resolver, at, old, results_mut_, caller, foreign, io, server >>

\* lock.lock(): wait for run_io_ctx to leave
StreamCancelLock ==
    /\ cn.pc = "lock"
    /\ sb.mutex_io_ctx_ = "free"
    /\ sb' = [sb EXCEPT !.mutex_io_ctx_ = "cancel"]
    /\ cn' = [cn EXCEPT !.pc = "recheck"]
    /\ UNCHANGED << now, scn, resolver, at, old, results_mut_, caller, foreign, io, server >>

\* if (socket().is_open()) close_if_open(); return, releasing the lock
StreamCancelRecheck ==
    /\ cn.pc = "recheck"
    /\ sb' = [(IF sb.is_open THEN close_if_open(sb) ELSE sb)
                 EXCEPT !.mutex_io_ctx_ = "free"]
    /\ cn' = [cn EXCEPT !.pc = "idle", !.returned = @ + 1,
                        !.path = IF sb.is_open THEN "recheck" ELSE "post"]
    /\ UNCHANGED << now, scn, resolver, at, old, results_mut_, caller, foreign, io, server >>

NextStreambuf ==
    \/ Connect
    \/ ConnectClose
    \/ ConnectAsync
    \/ Read
    \/ Write
    \/ Enter
    \/ RunOne
    \/ Return
    \/ Transfer
    \/ StreamCancel
    \/ StreamCancelDirect
    \/ StreamCancelPost
    \/ StreamCancelLock
    \/ StreamCancelRecheck

SpecStreambuf == Init /\ [][NextStreambuf]_vars

\* ------------------------------------------------ tcp_server client_session
\* One client session of the TCP server.  pc names the outstanding
\* asynchronous operation, whose handler keeps the session alive; when a
\* handler returns without starting another one the session is destroyed and
\* its socket closed.
ServerVersions == {100, 110}
RequestVersions == {100, 110, 120, 210}
OwnUid == "own"
RequestUids == {"", OwnUid, "other"}
Formats == {"string", "float32", "int32"}

\* api_config::use_protocol_version, the outlet's channel format, the
\* platform's format_ieee754 entries, the server's sync_handler and its
\* chunk_size_ (0: the outlet sets no chunk size)
Servers ==
    [use_protocol_version : ServerVersions, format : Formats,
     ieee754_double : BOOLEAN, ieee754_float : BOOLEAN, sync_handler : BOOLEAN,
     chunk_size_ : {0}]

\* the request line: verb, and for "LSL:streamfeed/V UID" its version and uid
Methods ==
    { [verb |-> v, version |-> 100, uid |-> ""] :
        v \in {"LSL:shortinfo", "LSL:fullinfo", "LSL:streamfeed", "other"} } \cup
    [verb : {"LSL:streamfeed/"}, version : RequestVersions, uid : RequestUids]

\* the feed parameters: the header lines a client may send (0 and "same"
\* stand for a line that is absent), the buffer length and the chunk
\* length it asks for
FeedParams ==
    [protocol_version : scn.versions, value_size : {"same", "other"},
     has_ieee754_floats : BOOLEAN, max_buffer_length : {-1, 0, 1},
     max_chunk_length : scn.chunks]

Status(ver, code) == [t |-> "status", ver |-> ver, code |-> code]
Response(ver, dpv) == [t |-> "200", ver |-> ver, dpv |-> dpv]
Archive(what) == [t |-> "archive", what |-> what]
Message(what) == [t |-> "message", what |-> what]
Pattern(n, dpv) == [t |-> "pattern", n |-> n, dpv |-> dpv]

\* the session the acceptor creates for a connection, registered with its
\* server.  Beside the members of client_session: pc is the asynchronous
\* operation the session waits for, serv whether serv_ can still be locked,
\* open is sock_.is_open(), inflight whether the server's inflight_ table
\* holds the session, held whether a close posted by close_inflight_sessions
\* owns it, handed whether sock_ was released to the sync handler,
\* outstanding the number of writes on sock_ whose handler has not run,
\* samples the content of the consumer queue, tpc the position of
\* transfer_samples_thread.  transfer_completed_ has no initialiser: what
\* it holds is chosen when the thread that reads it is spawned.  History: feedparams notes how the feed
\* parameters were read, served whether the server still existed when the
\* last request line was handled, method and query what was read, header
\* the fate of the feed header, shut that the posted close shut the socket
\* down and closed it.
NewSession(srv) ==
    [pc |-> "read_command", srv |-> srv, serv |-> TRUE, open |-> TRUE,
     request_protocol_version |-> 100, request_uid |-> "", feedparams |-> "none",
     served |-> TRUE,
     params |-> [protocol_version |-> 0, value_size |-> "same",
                 has_ieee754_floats |-> TRUE, max_buffer_length |-> 0,
                 max_chunk_length |-> 0],
     written |-> << >>, data_protocol_version_ |-> 100, max_buffered_ |-> 0,
     chunk_granularity_ |-> 0, feedbuf_ |-> << >>, outarch_ |-> FALSE,
     legacy |-> FALSE,
     max_samples_per_chunk |-> 0, samples_in_current_chunk |-> 0,
     transfer_amount_ |-> 0,
     queue |-> FALSE, thread |-> FALSE,
     inflight |-> TRUE, held |-> FALSE, handed |-> FALSE, outstanding |-> 0,
     samples |-> << >>, tpc |-> "none",
     transfer_completed_ |-> FALSE, transfer_error_ |-> FALSE,
     method |-> "none", query |-> "none", header |-> "none", shut |-> FALSE]

\* the last owner of the session is gone: ~client_session unregisters the
\* session if the server still exists (the table goes with the server), the
\* destructor of sock_ closes the socket unless it was released
Destroyed(s) ==
    [s EXCEPT !.pc = "closed", !.open = FALSE, !.inflight = FALSE, !.outstanding = 0]

\* a handler returns and drops its shared_ptr to the session: the session
\* lives on only if a posted close owns it
Released(s) == IF s.held THEN [s EXCEPT !.pc = "held"] ELSE Destroyed(s)

\* async_write(sock_, buf, handler holding shared_this)
send_status_message(s, msg) ==
    [s EXCEPT !.pc = "send_status", !.written = Append(@, msg),
              !.outstanding = @ + 1]

too_newNever(request_protocol_version, use_protocol_version) == FALSE

\* request_protocol_version / 100 > use_protocol_version() / 100
too_new(request_protocol_version, use_protocol_version) ==
    request_protocol_version \div 100 > use_protocol_version \div 100

uid_mismatchOnAnyOther(request_uid, uid) == request_uid # uid

\* !request_uid.empty() && request_uid != info->uid()
uid_mismatch(request_uid, uid) == request_uid # "" /\ request_uid # uid

negotiateNoDowngrade(srv, client_protocol_version, params) ==
    Min(srv.use_protocol_version, client_protocol_version)

\* the least common protocol version, downgraded to 100 when a binary
\* conversion is not supported
negotiate(srv, client_protocol_version, params) ==
    IF \/ srv.format # "string" /\ params.value_size # "same"
       \/ ~srv.ieee754_double
       \/ srv.format = "float32" /\ ~srv.ieee754_float
       \/ ~params.has_ieee754_floats
    THEN 100
    ELSE Min(srv.use_protocol_version, client_protocol_version)

\* the protocol version the client asks for: its Protocol-Version line, or
\* the version of the request line
ClientVersion(request_protocol_version, params) ==
    IF params.protocol_version = 0 THEN request_protocol_version
    ELSE params.protocol_version

\* ------------------------------------------------ sync_transfer_handler
\* sync_transfer_handler::add_socket: the push_back is posted to io_ctx_
add_socket(y) ==
    [y EXCEPT !.posted = Append(@, [op |-> "add", id |-> y.next]),
              !.handoff = Append(@, Started(y)),
              !.next = @ + 1]

\* ------------------------------------------------------------ tcp_server
\* tcp_server after its constructor and begin_serving: at least one of the
\* acceptors exists; srv is the configuration the sessions see.  posted lists the functions end_serving has queued in
\* io_, pushed counts the samples of the outlet; at_end notes whether the
\* session was in the in-flight table when end_serving ran, blank that the
\* wakeup sample was pushed.
NewServer(v4, v6, srv) ==
    [pc |-> "serving", srv |-> srv,
     acceptor_v4_ |-> IF v4 THEN "open" ELSE "none",
     acceptor_v6_ |-> IF v6 THEN "open" ELSE "none",
     posted |-> << >>, pushed |-> 0, at_end |-> "none", blank |-> "none"]

\* what the session model leaves alone
outside == << now, scn, resolver, at, old, results_mut_, caller, foreign, streambuf >>

\* tcp_server::tcp_server, begin_serving
BeginServing ==
    /\ tcp = NoServer
    /\ \E a \in scn.acceptors, srv \in scn.servers : tcp' = NewServer(a[1], a[2], srv)
    /\ UNCHANGED << outside, ss, sy >>

\* the accept handler: make_shared<client_session>(...)->begin_processing()
BeginProcessing ==
    /\ ss.pc = "none"
    /\ tcp.pc \in {"serving", "ended"}
    /\ "open" \in {tcp.acceptor_v4_, tcp.acceptor_v6_}
    /\ ss' = NewSession(tcp.srv)
    /\ UNCHANGED << outside, tcp, sy >>

\* an operation on a socket that is not open completes with an error
Errors == IF ss.open THEN BOOLEAN ELSE {TRUE}

HandleReadCommandOutcome ==
    /\ ss.pc = "read_command"
    /\ \E read_err \in Errors, method \in Methods :
         LET s == [ss EXCEPT !.method = IF read_err THEN "err" ELSE method.verb,
                             !.served = ss.serv]
         IN ss' =
              IF read_err THEN Released(s)
              ELSE CASE method.verb = "LSL:shortinfo" -> [s EXCEPT !.pc = "read_query"]
                     [] method.verb = "LSL:fullinfo" ->
                          IF ss.serv
                          THEN [s EXCEPT !.pc = "send_reply",
                                         !.written = Append(@, Message("fullinfo")),
                                         !.outstanding = @ + 1]
                          ELSE Released(s)
                     [] method.verb \in {"LSL:streamfeed", "LSL:streamfeed/"} ->
                          [s EXCEPT !.pc = "read_feedparams",
                                    !.request_protocol_version = method.version,
                                    !.request_uid = method.uid]
                     [] OTHER -> Released(s)
    /\ UNCHANGED << outside, tcp, sy >>

\* as sends_shortinfo, but the query is not looked at
sends_shortinfoAnyQuery(e, serv, matches) == ~e /\ serv

\* handle_read_query_outcome: the read succeeded, the server could be
\* locked and its stream matches the query
sends_shortinfo(e, serv, matches) == ~e /\ serv /\ matches

\* the handler of the shortinfo write owns the server, not the session: the
\* session goes when handle_read_query_outcome returns
HandleReadQueryOutcome ==
    /\ ss.pc = "read_query"
    /\ \E e \in Errors, matches \in BOOLEAN :
         LET s == [ss EXCEPT !.query = IF e THEN "err"
                                       ELSE IF matches THEN "match" ELSE "other",
                             !.served = ss.serv]
         IN ss' = IF sends_shortinfo(e, ss.serv, matches)
                  THEN Released([s EXCEPT !.written = Append(@, Message("shortinfo"))])
                  ELSE Released(s)
    /\ UNCHANGED << outside, tcp, sy >>

\* the reply or status line has been sent: its handler lets go of the session
ReplySent ==
    /\ ss.pc \in {"send_reply", "send_status"}
    /\ ss' = Released([ss EXCEPT !.outstanding = 0])
    /\ UNCHANGED << outside, tcp, sy >>

\* as FeedHeader, with the test patterns in the other order
FeedHeaderTwoFirst(s, dpv) ==
    (IF s.request_protocol_version >= 110
     THEN << Response(s.srv.use_protocol_version, dpv) >> ELSE << >>) \o
    (IF dpv = 100 THEN << Archive("shortinfo") >> ELSE << >>) \o
    << Pattern(2, dpv), Pattern(4, dpv) >>

\* the feed header of an accepted request: response lines (from 1.10 on),
\* the shortinfo archive in legacy mode, the two test patterns
FeedHeader(s, dpv) ==
    (IF s.request_protocol_version >= 110
     THEN << Response(s.srv.use_protocol_version, dpv) >> ELSE << >>) \o
    (IF dpv = 100 THEN << Archive("shortinfo") >> ELSE << >>) \o
    << Pattern(4, dpv), Pattern(2, dpv) >>

\* the test patterns (and later the samples) go through *outarch_ unless
\* data_protocol_version_ >= 110; outarch_ exists only for version 100
through_outarch(dpv) == dpv < 110

\* handle_read_feedparams.  When the patterns are written through an
\* outarch_ that was not created, a null pointer is dereferenced: the
\* process dies, or it goes on and writes whatever it writes.
HandleReadFeedparams ==
    /\ ss.pc = "read_feedparams"
    /\ \E e \in Errors, params \in FeedParams, dies \in BOOLEAN :
         LET s == [ss EXCEPT !.feedparams = IF e THEN "err" ELSE "read",
                             !.served = ss.serv,
                             !.params = IF e THEN @ ELSE params]
             dpv == IF ss.request_protocol_version >= 110
                    THEN negotiate(ss.srv,
                            ClientVersion(ss.request_protocol_version, params), params)
                    ELSE ss.data_protocol_version_
             accepted ==
                 /\ ~e
                 /\ ~too_new(ss.request_protocol_version, ss.srv.use_protocol_version)
                 /\ ss.serv
                 /\ ~uid_mismatch(ss.request_uid, OwnUid)
             null == accepted /\ through_outarch(dpv) /\ dpv # 100
             hdr == [s EXCEPT !.data_protocol_version_ = dpv,
                              !.max_buffered_ = params.max_buffer_length,
                              !.chunk_granularity_ = params.max_chunk_length,
                              !.outarch_ = (dpv = 100),
                              !.legacy = through_outarch(dpv)]
         IN /\ (dies => null)
            /\ ss' =
              IF e THEN Released(s)
              ELSE IF too_new(ss.request_protocol_version, ss.srv.use_protocol_version)
              THEN send_status_message(s, Status(ss.srv.use_protocol_version, 505))
              ELSE IF ~ss.serv THEN Released(s)
              ELSE IF uid_mismatch(ss.request_uid, OwnUid)
              THEN send_status_message(s, Status(ss.srv.use_protocol_version, 404))
              ELSE IF dies THEN [hdr EXCEPT !.pc = "crashed"]
              ELSE [hdr EXCEPT !.pc = "send_feedheader",
                               !.feedbuf_ = FeedHeader(ss, dpv),
                               !.written = @ \o FeedHeader(ss, dpv),
                               !.outstanding = @ + 1,
                               !.header = "sent"]
            /\ tcp' = IF dies THEN [tcp EXCEPT !.pc = "crashed"] ELSE tcp
    /\ UNCHANGED << outside, sy >>

\* as after_feedheader, but max_buffered_ is tested after sync_handler
after_feedheaderSyncFirst(s) ==
    IF s.srv.sync_handler THEN "sync"
    ELSE IF s.max_buffered_ <= 0 THEN "quit" ELSE "thread"

\* handle_send_feedheader_outcome once the server is locked: quit, hand the
\* socket to the sync handler, or spawn the transfer thread
after_feedheader(s) ==
    IF s.max_buffered_ <= 0 THEN "quit"
    ELSE IF s.srv.sync_handler THEN "sync" ELSE "thread"

\* the maximum chunk size: chunk_granularity_, else the server's
\* chunk_size_, else std::numeric_limits<int>::max()
chunk_limit(s) ==
    IF s.chunk_granularity_ # 0 THEN s.chunk_granularity_
    ELSE IF s.srv.chunk_size_ # 0 THEN s.srv.chunk_size_
    ELSE IntMax

HandleSendFeedheaderOutcome ==
    /\ ss.pc = "send_feedheader"
    /\ \E e \in Errors, garbage \in BOOLEAN :
         LET s == [ss EXCEPT !.outstanding = 0,
                             !.feedbuf_ = IF e THEN @ ELSE << >>,
                             !.header = IF e THEN "failed" ELSE "done"]
             how == IF e \/ ~ss.serv THEN "quit" ELSE after_feedheader(s)
         IN  /\ ss' = CASE how = "quit" -> Released(s)
                        [] how = "sync" ->
                             Released([s EXCEPT !.handed = TRUE, !.open = FALSE,
                                              !.inflight = FALSE])
                        [] OTHER -> [s EXCEPT !.pc = "transfer", !.queue = TRUE,
                                              !.thread = TRUE, !.tpc = "test",
                                              !.max_samples_per_chunk = chunk_limit(s),
                                              !.samples_in_current_chunk = 0,
                                              !.transfer_completed_ = garbage]
             /\ sy' = IF how = "sync" THEN add_socket(sy) ELSE sy
    /\ UNCHANGED << outside, tcp >>

\* transfer_samples_thread returns: the queue and the keepalive are dropped
ThreadExit(s) ==
    Released([s EXCEPT !.thread = FALSE, !.tpc = "exited", !.queue = FALSE,
                       !.samples = << >>])

\* transfer_samples_thread: while (!serv_.expired())
ThreadTest ==
    /\ ss.pc = "transfer" /\ ss.thread /\ ss.tpc = "test"
    /\ ss' = IF ss.serv THEN [ss EXCEPT !.tpc = "pop"] ELSE ThreadExit(ss)
    /\ UNCHANGED << outside, tcp, sy >>

Chunk(what) == [t |-> "chunk", what |-> what]

\* consumer_queue::pop_sample blocks until the queue holds a sample
pop_sample_returns(s) == s.samples # << >>

\* the samples of the queue: "data" is a sample pushed without pushthrough,
\* "push" one pushed with it, "blank" the sample of end_serving (created
\* with pushthrough set)
pushthrough(samp) == samp \in {"push", "blank"}

\* as flushes, but only a full chunk is sent off
flushesWhenFull(s, samp) == s.samples_in_current_chunk + 1 >= s.max_samples_per_chunk

\* samp->pushthrough || ++samples_in_current_chunk >= max_samples_per_chunk
flushes(s, samp) ==
    pushthrough(samp) \/ s.samples_in_current_chunk + 1 >= s.max_samples_per_chunk

\* transfer_samples_thread: pop_sample() returns a sample. A nil sample is
\* skipped; any other is serialized into feedbuf_, and one marked
\* pushthrough or one that fills the chunk sends the buffer off: under
\* completion_mut_ transfer_completed_ is reset and the write is issued,
\* then the thread waits. The counter is incremented only when the
\* pushthrough test fails. Whether the queue delivers the sample of
\* end_serving as a sample or as nil is left open.
ThreadPop ==
    /\ ss.pc = "transfer" /\ ss.thread /\ ss.tpc = "pop"
    /\ pop_sample_returns(ss)
    /\ \E nil \in IF Head(ss.samples) = "blank" THEN BOOLEAN ELSE {FALSE} :
         LET samp == Head(ss.samples)
             s == [ss EXCEPT !.samples = Tail(@)]
             buf == Append(ss.feedbuf_, samp)
         IN  ss' = IF nil THEN [s EXCEPT !.tpc = "test"]
                   ELSE IF flushes(ss, samp)
                   THEN [s EXCEPT !.feedbuf_ = buf,
                                  !.samples_in_current_chunk =
                                      IF pushthrough(samp) THEN @ ELSE @ + 1,
                                  !.transfer_completed_ = FALSE,
                                  !.written = Append(@, Chunk(buf)),
                                  !.outstanding = @ + 1,
                                  !.tpc = "wait"]
                   ELSE [s EXCEPT !.feedbuf_ = buf,
                                  !.samples_in_current_chunk = @ + 1,
                                  !.tpc = "test"]
    /\ UNCHANGED << outside, tcp, sy >>

\* client_session::handle_chunk_transfer_outcome, on the event loop
HandleChunkTransferOutcome ==
    /\ ss.pc = "transfer" /\ ss.outstanding > 0
    /\ \E e \in Errors :
         ss' = [ss EXCEPT !.transfer_error_ = e, !.transfer_completed_ = TRUE,
                          !.transfer_amount_ = IF e THEN 0 ELSE Len(ss.feedbuf_),
                          !.outstanding = @ - 1]
    /\ UNCHANGED << outside, tcp, sy >>

\* as wait_predicate, but the wait returns whatever the flag says
wait_predicateTrue(s) == TRUE

\* the predicate of completion_cond_.wait
wait_predicate(s) == s.transfer_completed_

\* transfer_samples_thread: the wait is over; a failed transfer ends the loop
ThreadWake ==
    /\ ss.pc = "transfer" /\ ss.thread /\ ss.tpc = "wait"
    /\ wait_predicate(ss)
    /\ ss' = IF ss.transfer_error_ THEN ThreadExit(ss)
             ELSE [ss EXCEPT !.feedbuf_ = SubSeq(@, ss.transfer_amount_ + 1, Len(@)),
                             !.samples_in_current_chunk = 0,
                             !.tpc = "test"]
    /\ UNCHANGED << outside, tcp, sy >>

\* the outlet pushes a sample into the send buffer (pushed counts them)
PushSample ==
    /\ tcp.pc = "serving" /\ tcp.pushed < scn.samples
    /\ ss.pc = "transfer" /\ ss.queue
    /\ tcp' = [tcp EXCEPT !.pushed = @ + 1]
    /\ \E samp \in {"data", "push"} : ss' = [ss EXCEPT !.samples = Append(@, samp)]
    /\ UNCHANGED << outside, sy >>

\* the session is in the in-flight table (and, being there, alive)
InFlight == ss.pc \notin {"none", "closed"} /\ ss.inflight

\* tcp_server::end_serving: post the close of the acceptors,
\* close_inflight_sessions (post a close for every session of the table,
\* clear the table), push the blank sample; blank records whom the sample
\* reached: a thread blocked in pop_sample ("woke"), a queue whose thread
\* was busy ("queued"), or no consumer queue at all ("unseen")
EndServing ==
    /\ tcp.pc = "serving"
    /\ tcp' = [tcp EXCEPT !.pc = "ended",
                          !.posted = << "acceptors" >> \o
                                     (IF InFlight THEN << "session" >> ELSE << >>),
                          !.at_end = IF InFlight THEN "inflight" ELSE "none",
                          !.blank = IF ss.pc \in {"none", "closed"} \/ ~ss.queue
                                    THEN "unseen"
                                    ELSE IF ss.tpc = "pop" /\ ss.samples = << >>
                                         THEN "woke" ELSE "queued"]
    /\ ss' = IF ss.pc \in {"none", "closed"} THEN ss
             ELSE [ss EXCEPT !.inflight = FALSE,
                             !.held = InFlight,
                             !.samples = IF ss.queue THEN Append(@, "blank") ELSE @]
    /\ UNCHANGED << outside, sy >>

\* the event loop runs the function end_serving posted first
RunEndServing ==
    /\ tcp.pc \in {"ended", "expired"} /\ tcp.posted # << >>
    /\ tcp' = [tcp EXCEPT !.posted = Tail(@),
                          !.acceptor_v4_ = IF Head(tcp.posted) = "acceptors" /\ @ = "open"
                                           THEN "closed" ELSE @,
                          !.acceptor_v6_ = IF Head(tcp.posted) = "acceptors" /\ @ = "open"
                                           THEN "closed" ELSE @]
    /\ ss' = IF Head(tcp.posted) = "session"
             THEN LET s == [ss EXCEPT !.held = FALSE,
                                      !.shut = @ \/ ss.open,
                                      !.open = FALSE]
                  IN  IF ss.pc = "held" THEN Destroyed(s) ELSE s
             ELSE ss
    /\ UNCHANGED << outside, sy >>

\* the owner of the tcp_server lets go of it after end_serving; the posted
\* close of the acceptors and a pending reply hold it until they are done
ServerExpires ==
    /\ tcp.pc = "ended"
    /\ "acceptors" \notin {tcp.posted[i] : i \in DOMAIN tcp.posted}
    /\ ss.pc # "send_reply"
    /\ tcp' = [tcp EXCEPT !.pc = "expired"]
    /\ ss' = IF ss.pc \in {"none", "closed"} THEN ss
             ELSE [ss EXCEPT !.serv = FALSE, !.inflight = FALSE]
    /\ UNCHANGED << outside, sy >>

\* ---------------------------------------- sync_transfer_handler at work
\* what the sync transfer model leaves alone
beside == << outside, ss, tcp >>

\* a session of the server hands its socket over (handle_send_feedheader_outcome
\* calls add_socket on the server's io thread, at any time)
HandOver ==
    /\ sy.pc \in {"idle", "run"}
    /\ sy.next <= MaxSockets
    /\ sy' = add_socket(sy)
    /\ UNCHANGED beside

\* the sockets of the vector
Ids(y) == { y.sync_sockets_[i].id : i \in DOMAIN y.sync_sockets_ }
IsOpen(y, id) ==
    \E i \in DOMAIN y.sync_sockets_ :
        y.sync_sockets_[i].id = id /\ y.sync_sockets_[i].open

\* write_all_blocking up to io_ctx_.run(): one async_write per socket of
\* the vector, its handler holding a reference to the vector element
WriteAllBlocking ==
    /\ sy.pc = "idle"
    /\ sy.rounds < MaxRounds
    /\ sy' = [sy EXCEPT !.pc = "run",
                        !.any_session_broken = FALSE,
                        !.result = << >>,
                        !.issued = @ \cup { << id, sy.rounds + 1 >> : id \in Ids(sy) },
                        !.writes = { [id |-> id, dangling |-> FALSE] : id \in Ids(sy) }]
    /\ UNCHANGED beside

\* std::vector growth when size() = capacity()
Grow(c) == IF c = 0 THEN 1 ELSE 2 * c

\* sync_sockets_.push_back: when the vector is full it is reallocated, and
\* every reference into it that a pending handler holds dangles
push_back(y, id) ==
    LET full == Len(y.sync_sockets_) = y.capacity
    IN [y EXCEPT !.sync_sockets_ = Append(@, [id |-> id, open |-> TRUE]),
                 !.capacity = IF full THEN Grow(@) ELSE @,
                 !.writes = IF full THEN { [w EXCEPT !.dangling = TRUE] : w \in @ }
                            ELSE @]

\* io_ctx_.run() runs the function add_socket posted
RunAdd ==
    /\ sy.pc = "run" /\ sy.posted # << >>
    /\ Head(sy.posted).op = "add"
    /\ sy' = push_back([sy EXCEPT !.posted = Tail(@)], Head(sy.posted).id)
    /\ UNCHANGED beside

ErrorCodes == {"success", "broken_pipe", "connection_reset", "operation_aborted", "other"}
Broken == {"broken_pipe", "connection_reset"}

\* what the handler's copy of sock can be.  Through a valid reference it is
\* the socket written to.  Through a dangling one the read is undefined:
\* the socket written to, another socket of the vector, no socket (0), or
\* the process dies (-1)
Copies(y, w) == IF w.dangling THEN Ids(y) \cup {0, -1} ELSE {w.id}

\* the completion handler of one async_write
RunWrite ==
    /\ sy.pc = "run"
    /\ \E w \in sy.writes, ec \in ErrorCodes :
         LET y == [sy EXCEPT !.writes = @ \ {w},
                             !.failed = IF ec = "success" THEN @ ELSE @ \cup {w.id},
                             !.result = (w.id :> ec) @@ @]
         IN  IF ec \in Broken
             THEN \E sock \in Copies(sy, w) :
                    sy' = IF sock = -1 THEN [y EXCEPT !.pc = "aborted"]
                          ELSE [y EXCEPT !.any_session_broken = TRUE,
                                         !.posted = Append(@, [op |-> "close", id |-> sock])]
             ELSE sy' = y
    /\ UNCHANGED beside

\* io_ctx_.run() runs the posted sock->close()
RunClose ==
    /\ sy.pc = "run" /\ sy.posted # << >>
    /\ Head(sy.posted).op = "close"
    /\ sy' = [sy EXCEPT !.posted = Tail(@),
                        !.sync_sockets_ =
                            [i \in DOMAIN @ |->
                                IF @[i].id = Head(sy.posted).id
                                THEN [@[i] EXCEPT !.open = FALSE] ELSE @[i]]]
    /\ UNCHANGED beside

\* io_ctx_.run() returns when no work is left; if a session broke the
\* sockets that are not open are removed
ReturnFromWrite ==
    /\ sy.pc = "run" /\ sy.posted = << >> /\ sy.writes = {}
    /\ sy' = [sy EXCEPT !.pc = "idle",
                        !.rounds = @ + 1,
                        !.sync_sockets_ =
                            IF sy.any_session_broken
                            THEN SelectSeq(@, LAMBDA e : e.open) ELSE @]
    /\ UNCHANGED beside

NextSync ==
    \/ HandOver
    \/ WriteAllBlocking
    \/ RunAdd
    \/ RunWrite
    \/ RunClose
    \/ ReturnFromWrite

NextSession ==
    \/ BeginServing
    \/ BeginProcessing
    \/ HandleReadCommandOutcome
    \/ HandleReadQueryOutcome
    \/ ReplySent
    \/ HandleReadFeedparams
    \/ HandleSendFeedheaderOutcome
    \/ ThreadTest
    \/ ThreadPop
    \/ HandleChunkTransferOutcome
    \/ ThreadWake
    \/ PushSample
    \/ EndServing
    \/ RunEndServing
    \/ ServerExpires

\* the acceptors the constructor can end up with
Acceptors == {<< TRUE, TRUE >>, << TRUE, FALSE >>, << FALSE, TRUE >>}

\* every server configuration behind both acceptors
Negotiation ==
    BothModes @@ [servers |-> Servers, acceptors |-> {<< TRUE, TRUE >>},
                  chunks |-> {0}, samples |-> MaxSamples,
                  versions |-> {0, 100, 110}]
InitSession == InitIn({Negotiation})
SpecSession == InitSession /\ [][NextSession]_vars

\* a float32 outlet speaking protocol 1.10, with and without the sync
\* handler, behind any acceptors
PlainServers ==
    [use_protocol_version : {110}, format : {"float32"}, ieee754_double : {TRUE},
     ieee754_float : {TRUE}, sync_handler : BOOLEAN, chunk_size_ : {0}]
Serving ==
    BothModes @@ [servers |-> PlainServers, acceptors |-> Acceptors,
                  chunks |-> {0}, samples |-> MaxSamples,
                  versions |-> {0, 100, 110}]
InitServer == InitIn({Serving})
SpecServer == InitServer /\ [][NextSession]_vars

TypeOK ==
    /\ now \in 0 .. MaxTime
    /\ pc \in {"idle", "threw", "os_setup", "os_check", "os_run", "os_ret",
               "rc_spawn", "dtor_join", "destroyed"}
    /\ fpc \in {"idle", "c_post", "r_loop", "r_ret", "r_threw"}
    /\ results_mut_ \in {"free", "results"}
    /\ current_resolve \in 0 .. scn.attempts
    /\ at.posted \in 0 .. scn.cancels + 1

\* ------------------------------------------------------------- claims
Addr(e, f) == IF f = 4 THEN e.v4 ELSE e.v6
Entries == {u \in UIDs : at.results_[u] # Absent}

\* C1 as stated: every entry's address for family F is the source address of
\* the first reply of family F received for that UID during the attempt
\* (looked at while the results have not been moved out).
C1_FirstReplyOfAttempt ==
    (current_resolve # 0 /\ ~at.moved) =>
        \A u \in Entries, f \in Fams : Addr(at.results_[u], f) = at.first[u][f]

\* C1 amended: as long as resolve_oneshot has not moved the results out, every
\* entry's address for family F is the source address of the first reply of
\* family F received since the entry was inserted (results() may have erased
\* an earlier entry of the UID), and no step changes an address that is set
\* while the entry stays in the map.
C1_FirstReplySinceInsert ==
    [][ /\ (current_resolve' # 0 /\ ~at'.moved) =>
              \A u \in UIDs, f \in Fams :
                 at'.results_[u] # Absent =>
                    Addr(at'.results_[u], f) = at'.firstIn[u][f]
        /\ (current_resolve' = current_resolve /\ ~at'.moved) =>
              \A u \in UIDs, f \in Fams :
                 (at.results_[u] # Absent /\ at'.results_[u] # Absent
                    /\ Addr(at.results_[u], f) # 0) =>
                       Addr(at'.results_[u], f) = Addr(at.results_[u], f) ]_vars

\* C1 witness: an entry that results() erased was inserted again by a reply
\* from another address, and a later reply from the first address left it
C1_Witness ==
    /\ current_resolve # 0 /\ ~at.moved
    /\ at.first[1][4] = 1
    /\ at.results_[1].v4 = 2
    /\ at.results_[1].v6 = 1

\* C2: in continuous mode the loop of results() returns only entries with
\* last_seen >= now - forget_after (now: the clock results() read) and leaves
\* no older entry in the map.
C2_ResultsPrune ==
    [][ (fpc = "r_loop" /\ fpc' = "r_ret" /\ background_io_ # 0) =>
           /\ \A i \in 1 .. Len(rout') :
                 at.results_[rout'[i].uid].last >= rcall.t - forget_after_
           /\ \A u \in UIDs :
                 at'.results_[u] # Absent =>
                    at'.results_[u].last >= rcall.t - forget_after_
           /\ \A u \in UIDs :
                 at'.results_[u] # at.results_[u] =>
                    (at'.results_[u] = Absent
                       /\ at.results_[u].last < rcall.t - forget_after_) ]_vars

\* C2 witness: a results() call of a continuous resolver has just erased the
\* entry of stream 1 and returned the entry of stream 2
C2_Witness ==
    /\ fpc = "r_ret" /\ background_io_ # 0
    /\ at.first[1][4] # 0 /\ at.results_[1] = Absent
    /\ Len(rout) = 1 /\ rout[1].uid = 2

\* a resolve_oneshot call that no cancel() interferes with returns
OneshotReturns == pc \in {"os_check", "os_run"} /\ pc' = "os_ret" /\ ~cancelled_

\* C3 as stated: resolve_oneshot with minimum > 0 never returns before
\* minimum_time has elapsed since the call, whatever the timeout.
C3_NotBeforeMinimumTime ==
    [][ (OneshotReturns /\ call.minimum > 0) =>
           now >= call.t0 + call.minimum_time ]_vars

\* C3 amended: resolve_oneshot with minimum > 0 never returns before the
\* smaller of minimum_time and timeout has elapsed since the call.
C3_NotBeforeMinimumTimeOrTimeout ==
    [][ (OneshotReturns /\ call.minimum > 0) =>
           now >= call.t0 + Min(call.minimum_time, call.timeout) ]_vars

\* C3 witness: a call with minimum 1 and minimum_time 2 has returned although
\* its one result was collected before minimum_time had elapsed
C3_Witness ==
    /\ pc = "os_ret" /\ ~cancelled_
    /\ call.minimum = 1 /\ call.minimum_time = 2 /\ call.timeout = FOREVER
    /\ \E u \in Entries : at.results_[u].last < call.t0 + call.minimum_time

\* the UIDs from which the attempt accepted a reply, and those a return
\* value holds
Seen == {u \in UIDs : \E f \in Fams : at.first[u][f] # 0}
UidsOf(out) == {out[i].uid : i \in 1 .. Len(out)}
Idle(a) ==
    /\ ~a.recv_pending
    /\ a.unicast_timer_ = NoWait
    /\ a.multicast_timer_ = NoWait
    /\ a.cancel_timer_ = NoWait
InOneshot == pc \in {"os_setup", "os_check", "os_run"}

\* C4: in resolve_oneshot with minimum = k > 0, timeout = FOREVER and
\* minimum_time = 0, the receive handler that brings results_ to k UIDs
\* cancels the attempt and leaves no receive and no timer pending; results_
\* never holds more than k UIDs; once k UIDs are collected the call returns,
\* and what it returns is one record for each UID collected, k of them.
C4Call ==
    /\ call.op = "oneshot" /\ call.minimum > 0
    /\ call.timeout = FOREVER /\ call.minimum_time = 0
C4_ReturnsAtMinimum ==
    /\ [][ /\ (C4Call /\ pc = "os_run" /\ Size(at.results_) < call.minimum
                 /\ Size(at'.results_) = call.minimum) =>
                    (at'.cancelled_ /\ Idle(at') /\ ~at'.recv_open)
           /\ (C4Call /\ pc = "os_run" /\ pc' = "os_ret"
                 /\ Size(at.results_) = call.minimum) =>
                    (Len(output') = call.minimum /\ UidsOf(output') = Seen) ]_vars
    /\ [](C4Call => Size(at.results_) <= call.minimum)
    /\ ((C4Call /\ pc = "os_run" /\ Size(at.results_) = call.minimum)
           ~> (pc = "os_ret"))

\* C4 witness: a call with minimum 2 and no timeout has returned two records
\* without having been cancelled from outside
C4_Witness ==
    /\ pc = "os_ret" /\ C4Call /\ call.minimum = 2
    /\ ~cancelled_ /\ Len(output) = 2

\* C5: in resolve_oneshot with minimum = 0 and a finite timeout T, unless
\* cancel() is called the attempt is not cancelled and the call does not
\* return before T has elapsed, however many replies arrive; the cancel
\* timer's handler cancels the attempt; once the deadline has passed the call
\* returns; it returns one record for each UID an accepted reply came from.
C5Call ==
    /\ call.op = "oneshot" /\ call.minimum = 0 /\ call.timeout < FOREVER
C5_RunsUntilTimeout ==
    /\ [][ /\ (C5Call /\ InOneshot /\ ~cancelled_ /\ at'.cancelled_) =>
                 now >= call.t0 + call.timeout
           /\ (C5Call /\ InOneshot /\ ~cancelled_ /\ pc' = "os_ret") =>
                 (now >= call.t0 + call.timeout /\ at.cancelled_)
           /\ (C5Call /\ pc = "os_run" /\ ~at.cancelled_
                 /\ \E h \in at.ready \ at'.ready : h.k = "c" /\ h.err = "ok") =>
                    at'.cancelled_
           /\ (C5Call /\ pc = "os_run" /\ pc' = "os_ret") =>
                 (UidsOf(output') = Seen /\ Len(output') = Cardinality(Seen)) ]_vars
    /\ ((C5Call /\ pc = "os_run" /\ now >= at.cancel_after_) ~> (pc = "os_ret"))

\* C5 witness: a call with minimum 0 and timeout 1 has returned both streams
\* without having been cancelled from outside
C5_Witness ==
    /\ pc = "os_ret" /\ C5Call /\ call.timeout = 1
    /\ ~cancelled_ /\ Len(output) = 2

\* a call of resolve_oneshot or resolve_continuous is made in this step
Calls(op) == pc = "idle" /\ call'.op = op
Rejected(e) ==
    /\ pc' = "threw" /\ err' = e
    /\ UNCHANGED << resolver, at, old, results_mut_ >>

\* C6 as stated: resolve_continuous (here with a well-formed query) on an
\* instance on which resolve_oneshot has been used, and resolve_oneshot on an
\* instance running in continuous mode, both fail with AlreadyRunning and
\* change nothing.
C6_ModesExclusive ==
    [][ /\ (Calls("continuous") /\ current_resolve # 0
                /\ call'.query = "good") =>
              Rejected("AlreadyRunning")
        /\ (Calls("oneshot") /\ background_io_ # 0) =>
              Rejected("AlreadyRunning") ]_vars

\* C6 amended: resolve_oneshot and resolve_continuous fail with
\* AlreadyRunning and change nothing exactly when the instance is running in
\* continuous mode; on an instance on which only resolve_oneshot has been
\* used, resolve_continuous with a well-formed query creates a new attempt.
C6_ContinuousExcludes ==
    [][ \A op \in {"oneshot", "continuous"} :
           Calls(op) =>
              /\ background_io_ # 0 => Rejected("AlreadyRunning")
              /\ background_io_ = 0 => err' # "AlreadyRunning"
              /\ (background_io_ = 0 /\ call'.query = "good") =>
                    (pc' # "threw" /\ current_resolve' # current_resolve
                       /\ at'.id = current_resolve') ]_vars

\* C6 witness: resolve_continuous was accepted on an instance on which
\* resolve_oneshot had been used, and a later resolve_oneshot is rejected
C6_Witness ==
    /\ pc = "threw" /\ err = "AlreadyRunning" /\ call.op = "oneshot"
    /\ background_io_ = 2

\* C7 as stated: an ill-formed query is rejected with InvalidQuery and
\* changes nothing.
C7_BadQueryInvalid ==
    [][ \A op \in {"oneshot", "continuous"} :
           (Calls(op) /\ call'.query = "bad") => Rejected("InvalidQuery") ]_vars

\* C7 amended: an ill-formed query is rejected in the call and changes
\* nothing (no attempt, no socket, no datagram, no thread); the error is
\* InvalidQuery unless the instance is running in continuous mode, where the
\* call fails with AlreadyRunning before the query is looked at.
C7_BadQueryRejected ==
    [][ \A op \in {"oneshot", "continuous"} :
           (Calls(op) /\ call'.query = "bad") =>
              Rejected(IF background_io_ # 0 THEN "AlreadyRunning"
                       ELSE "InvalidQuery") ]_vars

\* C7 witness: an ill-formed query was rejected on a resolver that has an
\* attempt
C7_Witness ==
    /\ pc = "threw" /\ err = "InvalidQuery" /\ call.query = "bad"
    /\ current_resolve # 0

\* C8 as stated: once do_cancel has run on the attempt, none of its senders
\* sends a query datagram.
C8_NoSendAfterCancel == at.late = {}

\* C9: after do_cancel no timer is armed and no receive is pending; once
\* cancel() is issued on a resolver that has started resolve_continuous the
\* attempt's event loop ends, and the destructor's join returns.
C9_DestructorReturns ==
    /\ [](at.cancelled_ => Idle(at))
    /\ ((current_resolve # 0 /\ fpc = "c_post") ~> (at.loop = "finished"))
    /\ ((pc = "dtor_join") ~> (pc = "destroyed"))

\* C9 witness: the destructor of a resolver in continuous mode has joined
\* the background thread
C9_Witness ==
    /\ pc = "destroyed" /\ background_io_ # 0 /\ at.loop = "finished"

\* C10: a resolve_oneshot call that is under way when cancel() is called, or
\* is started after it, returns.
C10_CancelUnblocksOneshot ==
    (InOneshot /\ cancelled_) ~> (pc = "os_ret")

\* C10 witness: cancel() was called while the event loop of resolve_oneshot
\* was running, and the call has returned
C10_Witness ==
    /\ pc = "os_ret" /\ cancelled_ /\ at.loop = "finished"
    /\ call.minimum = 0 /\ call.timeout = FOREVER

\* C11 as stated: after do_cancel the receive socket, the unicast sender's
\* socket and every multicast/broadcast sender's socket are closed.
C11_CancelClosesAllSockets ==
    at.cancelled_ => (~at.recv_open /\ ~at.ucast_open /\ at.mcast_open = {})

AllClosed(a) == ~a.recv_open /\ ~a.ucast_open /\ a.mcast_open = {}

\* C12 as stated: a resolve_oneshot or resolve_continuous call made after
\* cancel() has returned hands back control with no query datagram sent by
\* its attempt and no socket of its attempt open.
C12_NoResolveAfterCancel ==
    [][ (call.after_cancel /\ pc \in {"os_ret", "rc_spawn"} /\ pc' = "idle") =>
           (at'.sent = {} /\ AllClosed(at')) ]_vars

\* what can be observed of an attempt: its flag, sockets and timers, and the
\* handlers that are pending on its io_context (each posted do_cancel owns
\* the attempt through shared_this)
Observable(a) ==
    [ cancelled_ |-> a.cancelled_, recv_open |-> a.recv_open,
      ucast_open |-> a.ucast_open, mcast_open |-> a.mcast_open,
      unicast_timer_ |-> a.unicast_timer_, multicast_timer_ |-> a.multicast_timer_,
      cancel_timer_ |-> a.cancel_timer_, recv_pending |-> a.recv_pending,
      ready |-> a.ready, posted |-> a.posted ]

\* a cancel() that follows an earlier cancel() on the resolver reaches
\* if (current_resolve) current_resolve->cancel() in this step
RepeatedCancel ==
    \/ pc = "idle" /\ pc' = "dtor_join" /\ cancelled_
    \/ fpc = "c_post" /\ fpc' = "idle" /\ ncancel >= 2

\* C13 as stated: a cancel() issued after an earlier cancel() changes
\* nothing observable: the flags stay, and where the attempt's loop is not
\* running (so nothing is left to drain) the sockets, timers and pending
\* handlers of the attempt are what they were.
C13_CancelIdempotent ==
    [][ RepeatedCancel =>
           /\ cancelled_' = cancelled_
           /\ at'.cancelled_ = at.cancelled_
           /\ at.loop # "running" => Observable(at') = Observable(at) ]_vars

\* the continuations that own the attempt through shared_this: a posted
\* do_cancel, the receive handler and the cancel timer's wait handler (the
\* wave timers' handlers capture this only)
Owned(a) ==
    \/ a.posted > 0
    \/ a.recv_pending
    \/ a.cancel_timer_ # NoWait
    \/ \E h \in a.ready : h.k \in {"recv", "c"}

\* C14 as stated: once the attempt is cancelled, its loop has drained and
\* returned, and the resolver is destroyed, no continuation is left that owns
\* the attempt (its last owner is gone, so it is destroyed).
C14_AttemptDestroyed ==
    (pc = "destroyed" /\ at.cancelled_ /\ at.loop = "finished") => ~Owned(at)


\* the user thread sits in run_one() with nothing ready to run
Blocked == io.pc = "run_one" /\ sb.queue = << >> /\ sb.pending # << >>

\* C15 as stated: when cancel() returns the socket is closed and the
\* cancelled flag is set, and after it has returned the call that was in
\* progress is not left blocked in the event loop.
C15_CancelClosesAndUnblocks ==
    [][ /\ cn'.returned > cn.returned => (sb'.cancelled_ /\ ~sb'.is_open)
        /\ cn'.returned > 0 => ~Blocked' ]_vars

\* the call in progress reports its outcome in this step
Reports == io'.nops = io.nops + 1

\* C16 as stated: a read, write or connect that reports its outcome after
\* cancel() has been issued, and whose transfer the network has not
\* completed, reports failure (eof, null pointer or exception), not success.
C16_OperationsFailAfterCancel ==
    [][ (Reports /\ cn.issued > 0 /\ ~io.transferred) =>
           io'.result \in {"fail", "threw"} ]_vars

\* cancel() closes the socket itself in this step
CancelCloses ==
    \/ cn.pc = "direct" /\ cn'.pc = "idle"
    \/ cn.pc = "recheck" /\ cn'.pc = "idle" /\ sb.is_open
\* the posted close_if_open runs in this step
PostedCloseRuns ==
    io.pc = "run_one" /\ sb.queue # << >> /\ Head(sb.queue) = PostedClose
       /\ sb'.queue # sb.queue

\* C17: the cancelling thread closes the socket only while it holds
\* mutex_io_ctx_ and the other thread is not inside run_io_ctx; the posted
\* close runs on the thread that drives the loop, which holds the mutex;
\* and the stream becomes cancelled in no other way.
C17_CloseOutsideLoopOrOnLoop ==
    [][ /\ CancelCloses => (sb.mutex_io_ctx_ = "cancel" /\ io.pc # "run_one")
        /\ PostedCloseRuns => sb.mutex_io_ctx_ = "io"
        /\ (sb'.cancelled_ /\ ~sb.cancelled_) => (CancelCloses \/ PostedCloseRuns)
      ]_vars

\* cancel() found the loop running, posted the close, and the loop thread
\* ran it: the stream is cancelled and the blocked call has failed
C17_Witness ==
    /\ cn.path = "post" /\ cn.returned = 1
    /\ sb.cancelled_ /\ ~sb.is_open
    /\ io.op = "read" /\ io.result = "fail" /\ io.nops = 2
    /\ sb.queue = << Done("aborted", FALSE) >>

\* handle_read_feedparams has run on a request that was read without error
FeedparamsRead == ss.pc # "none" /\ ss.feedparams = "read"
\* the request's major version exceeds the server's
TooNew == ss.request_protocol_version \div 100 > ss.srv.use_protocol_version \div 100
\* the request carries a UID, and not the outlet's
Mismatch == ss.request_uid \notin {"", OwnUid}
\* nothing but the status line was written, no queue and no thread exist,
\* and the session is waiting for the line to be sent, is held by a close
\* that end_serving posted, or is gone
RejectedWith(code) ==
    /\ ss.written = << Status(ss.srv.use_protocol_version, code) >>
    /\ ~ss.queue /\ ~ss.thread
    /\ ss.pc \in {"send_status", "held", "closed"}
    /\ ss.pc = "held" => "session" \in {tcp.posted[i] : i \in DOMAIN tcp.posted}
    /\ ss.pc = "closed" => ~ss.open

\* C18: a streamfeed request whose major version exceeds the server's gets
\* the 505 status line and nothing else, no queue, no thread, and the
\* connection is closed, whatever its UID.
C18_TooNewRejected == (FeedparamsRead /\ TooNew) => RejectedWith(505)

\* version 2.10 asked of a 1.10 server, with a UID that is not the outlet's
C18_Witness ==
    /\ FeedparamsRead /\ TooNew /\ Mismatch
    /\ ss.request_protocol_version = 210 /\ ss.srv.use_protocol_version = 110
    /\ ss.pc = "closed" /\ RejectedWith(505)

\* C19 as stated: a streamfeed request with a non-empty UID that is not the
\* outlet's gets the 404 status line and nothing else, and the connection
\* is closed; a request with an empty or the matching UID gets no 404.
C19_WrongUidRejected ==
    FeedparamsRead =>
        /\ Mismatch => RejectedWith(404)
        /\ ~Mismatch => \A i \in 1 .. Len(ss.written) :
                            ss.written[i] # Status(ss.srv.use_protocol_version, 404)

\* C19 amended: the same for a request whose major version the server
\* accepts and which is handled while the server still exists.
C19_WrongUidRejectedIfVersionAccepted ==
    FeedparamsRead =>
        /\ (Mismatch /\ ~TooNew /\ ss.served) => RejectedWith(404)
        /\ ~Mismatch => \A i \in 1 .. Len(ss.written) :
                            ss.written[i] # Status(ss.srv.use_protocol_version, 404)

\* "LSL:streamfeed/110 other" asked of a 1.10 server
C19_Witness ==
    /\ FeedparamsRead /\ Mismatch /\ ~TooNew /\ ss.served
    /\ ss.request_protocol_version = 110 /\ ss.srv.use_protocol_version = 110
    /\ ss.pc = "closed" /\ RejectedWith(404)

\* the request was accepted: the feed header has been written
Accepted == FeedparamsRead /\ ~TooNew /\ ~Mismatch /\ ss.served
\* the client's side of the negotiation
ClientProtocolVersion ==
    IF ss.request_protocol_version >= 110 /\ ss.params.protocol_version # 0
    THEN ss.params.protocol_version ELSE ss.request_protocol_version
Downgrade ==
    /\ ss.request_protocol_version >= 110
    /\ \/ ss.srv.format # "string" /\ ss.params.value_size = "other"
       \/ ~ss.srv.ieee754_double
       \/ ss.srv.format = "float32" /\ ~ss.srv.ieee754_float
       \/ ~ss.params.has_ieee754_floats
\* the version announced in the response, if one was written
Announced == { ss.written[i].dpv : i \in {j \in 1 .. Len(ss.written) : ss.written[j].t = "200"} }
\* the versions the feed was serialized with
Serialized == { ss.written[i].dpv : i \in {j \in 1 .. Len(ss.written) : ss.written[j].t = "pattern"} }

MapChanges == at'.id = at.id /\ at'.results_ # at.results_
\* a step of the attempt's event loop: no caller moves
LoopStep == pc' = pc /\ fpc' = fpc
\* entries are only erased: what stays is what was there
OnlyErases ==
    \A u \in UIDs : at'.results_[u] = Absent \/ at'.results_[u] = at.results_[u]

ReceiveCompleted ==
    /\ LoopStep /\ ~at.cancelled_
    /\ \E h \in at.ready : h.k = "recv" /\ h.err \notin Dead /\ h \notin at'.ready
\* what is_done tests on an attempt that is not cancelled
Due(a, t) ==
    \/ t > a.cancel_after_
    \/ a.minimum_ # 0 /\ Size(a.results_) >= a.minimum_ /\ t >= a.resolve_atleast_until_
\* the loop ran the cancel timer's handler or a posted do_cancel
CancelRan ==
    \/ \E h \in at.ready : h.k = "c" /\ h.err = "ok" /\ h \notin at'.ready
    \/ at'.posted < at.posted

\* C29: the done predicate is evaluated in the handler of a completed
\* receive and nowhere else: that handler cancels the attempt when the
\* predicate holds and posts the next receive when it does not; besides
\* it only setup_handlers posts a receive (the first one, before the loop
\* runs), no other step cancels the attempt because it is done, and a
\* cancelled attempt never has a receive posted.
C29_DoneOnlyAfterReceive ==
    [][ at'.id = at.id =>
          /\ ReceiveCompleted =>
                IF Due(at', now)
                THEN at'.cancelled_ /\ ~at'.recv_pending /\ ~at'.recv_open
                ELSE ~at'.cancelled_ /\ at'.recv_pending
          /\ (~at.recv_pending /\ at'.recv_pending) =>
                ReceiveCompleted \/ at.loop = "idle"
          /\ (~at.cancelled_ /\ at'.cancelled_) => ReceiveCompleted \/ CancelRan
          /\ at'.cancelled_ => ~at'.recv_pending ]_vars

\* a receive handler found the minimum reached before the deadline and
\* cancelled the attempt; nobody called cancel()
C29_Witness ==
    /\ at.cancelled_ /\ ~at.recv_pending /\ ~cancelled_ /\ at.posted = 0
    /\ at.minimum_ > 0 /\ Size(at.results_) >= at.minimum_
    /\ now <= at.cancel_after_

\* the replies whose receive handler the loop ran in this step and accepted
AcceptedNow ==
    { h.rep : h \in { g \in at.ready \ at'.ready :
                         /\ g.k = "recv" /\ g.err = "ok" /\ g.rep \notin Swallowed
                         /\ LoopStep /\ ~at.cancelled_ } }
\* the entry for a known UID after a reply: last_seen is now, an address
\* is either the old one or, where that was empty, the reply's
Refreshed(e, rep, t) ==
    [ last |-> t,
      v4 |-> IF rep.fam = 4 /\ e.v4 = 0 THEN rep.addr ELSE e.v4,
      v6 |-> IF rep.fam = 6 /\ e.v6 = 0 THEN rep.addr ELSE e.v6 ]

\* C30: an accepted reply for a UID that is already in the result map
\* sets the entry's last_seen to now and leaves the entry as it was, except
\* that the address of the reply's family is filled when it was empty; no
\* other entry changes, and what results() and resolve_oneshot hand out
\* holds one record per UID.
C30_KnownUidOnlyRefreshed ==
    [][ /\ at'.id = at.id =>
              \A rep \in AcceptedNow :
                 /\ at.results_[rep.uid] # Absent =>
                       at'.results_[rep.uid] = Refreshed(at.results_[rep.uid], rep, now)
                 /\ \A u \in UIDs \ {rep.uid} : at'.results_[u] = at.results_[u]
        /\ \A i, j \in DOMAIN rout' : rout'[i].uid = rout'[j].uid => i = j
        /\ \A i, j \in DOMAIN output' : output'[i].uid = output'[j].uid => i = j ]_vars

\* a known UID was seen again later and from the other family: the entry
\* holds both addresses and the time of the later reply
C30_Witness ==
    \E u \in UIDs :
       /\ at.results_[u] # Absent /\ at.results_[u].last > 0
       /\ at.results_[u].v4 # 0 /\ at.results_[u].v6 # 0
       /\ at.first[u][4] # 0 /\ at.first[u][6] # 0

\* the attempt has a unicast sender and a multicast sender
BothSenders(a) == a.ucast /\ a.mcast > 0
\* class k sent a wave in this step, and it had sent one before
NextWave(k) ==
    at'.id = at.id /\ at.wave_t[k] >= 0 /\ at'.wave_t[k] # at.wave_t[k]
Spacing(k) == at'.wave_t[k] - at.wave_t[k]

Chunks == { i \in DOMAIN ss.written : ss.written[i].t = "chunk" }

\* C21: a session with a transfer thread has at most one write outstanding
\* on its socket: when the thread issues a write, the feed header's
\* handler and the handler of every earlier chunk have run, whatever the
\* interleaving of the thread and the event loop.
C21_OneOutstandingWrite ==
    [][ /\ ss'.pc = "transfer" => ss'.outstanding <= 1
        /\ (ss.pc = "transfer" /\ ss'.pc = "transfer"
              /\ ss'.outstanding > ss.outstanding) =>
                 /\ ss.outstanding = 0
                 /\ ss.header = "done"
                 /\ ss.tpc = "pop" /\ ss'.tpc = "wait" ]_vars

\* the second chunk is outstanding; the first one was completed before
C21_Witness ==
    /\ ss.pc = "transfer" /\ ss.tpc = "wait" /\ ss.outstanding = 1
    /\ Cardinality(Chunks) = 2

\* the functions end_serving posted that the loop has not run yet
PostedWork == {tcp.posted[i] : i \in DOMAIN tcp.posted}

\* C22: once the feed header of a session with max_buffered_ <= 0 has been
\* sent, there is no consumer queue and no transfer thread, the socket was
\* not handed to the sync handler, no sample was written, the session is
\* out of the in-flight table and destroyed with its socket closed (a
\* close that end_serving posted meanwhile owns it until the loop runs it).
C22_ZeroBufferQuits ==
    (ss.pc # "none" /\ ss.header = "done" /\ ss.max_buffered_ <= 0) =>
        /\ ~ss.queue /\ ~ss.thread /\ ss.tpc = "none"
        /\ ~ss.handed /\ sy.posted = << >>
        /\ Chunks = {}
        /\ ~ss.inflight
        /\ ss.pc \in {"held", "closed"}
        /\ ss.pc = "held" => "session" \in PostedWork
        /\ ss.pc = "closed" => ~ss.open

\* a negative buffer length on a server with a sync handler: the two test
\* patterns were the last thing sent
C22_Witness ==
    /\ ss.pc = "closed" /\ ss.header = "done" /\ ss.max_buffered_ < 0
    /\ ss.srv.sync_handler /\ ss.serv
    /\ Len(ss.written) >= 2 /\ ss.written[Len(ss.written)].t = "pattern"

\* end_serving was called and the loop has run everything it posted
ShutdownRan == tcp.pc \in {"ended", "expired"} /\ tcp.posted = << >>

\* C23: after end_serving() and once the loop has run the posted work, no
\* acceptor is open and the session that was in flight at end_serving()
\* has had its socket shut down and closed.
C23_ShutdownClosesAll ==
    ShutdownRan =>
        /\ "open" \notin {tcp.acceptor_v4_, tcp.acceptor_v6_}
        /\ tcp.at_end = "inflight" => ss.shut

\* a transfer thread that can never wake: it waits in pop_sample() on an
\* empty queue and nothing is pushed after end_serving
BlockedInPop ==
    /\ ss.pc = "transfer" /\ ss.thread /\ ss.tpc = "pop"
    /\ ss.samples = << >>

\* C24: after end_serving() has pushed the blank sample, the transfer thread
\* advances, sees the expired server reference and exits; stated on finite
\* runs: once the server has expired and the loop has run the posted work,
\* no transfer thread is left blocked in pop_sample() on an empty queue.
C24_PumpsExitAfterBlank ==
    (tcp.pc = "expired" /\ tcp.blank = "woke" /\ tcp.posted = << >>) => ~BlockedInPop

\* what the session has written so far
Wrote(m) == \E i \in DOMAIN ss.written : ss.written[i] = m

\* the session is over: destroyed, or owned only by the close end_serving
\* posted (which destroys it), and out of the in-flight table
Ended ==
    /\ ss.pc \in {"held", "closed"} /\ ~ss.inflight
    /\ ss.pc = "held" => "session" \in PostedWork
    /\ ss.pc = "closed" => ~ss.open

\* the request has been turned down without a reply: unknown command, read
\* error on the command or the query, or a query that does not match
TurnedDown ==
    ss.pc # "none" /\ (ss.method \in {"err", "other"} \/ ss.query \in {"err", "other"})

\* C26 as stated: the shortinfo message is written if and only if the
\* command is LSL:shortinfo and its query matches; fullinfo is written only
\* for LSL:fullinfo; a request that is turned down gets nothing written,
\* no read is posted and the session is over.
C26_WritesOnlyOnTransitions ==
    ss.pc # "none" =>
        /\ Wrote(Message("shortinfo")) <=>
               (ss.method = "LSL:shortinfo" /\ ss.query = "match")
        /\ Wrote(Message("fullinfo")) => ss.method = "LSL:fullinfo"
        /\ TurnedDown => ss.written = << >> /\ ss.outstanding = 0 /\ Ended

\* C26 amended: as stated, with the shortinfo message written if and only
\* if the command is LSL:shortinfo, its query matches and the server still
\* existed when the query was handled; the fullinfo message is the only
\* thing a session with command LSL:fullinfo writes; a matching query
\* handled after the server is gone ends the session with nothing written.
C26_WritesOnlyWhileServerExists ==
    ss.pc # "none" =>
        /\ Wrote(Message("shortinfo")) <=>
               (ss.method = "LSL:shortinfo" /\ ss.query = "match" /\ ss.served)
        /\ Wrote(Message("shortinfo")) => ss.written = << Message("shortinfo") >> /\ Ended
        /\ Wrote(Message("fullinfo")) =>
               ss.method = "LSL:fullinfo" /\ ss.written = << Message("fullinfo") >>
        /\ TurnedDown => ss.written = << >> /\ ss.outstanding = 0 /\ Ended
        /\ (ss.query = "match" /\ ~ss.served) =>
               ss.written = << >> /\ ss.outstanding = 0 /\ Ended

\* both directions have happened: a reply to a matching query, and (in
\* another run) a query turned down
C26_Witness ==
    /\ ss.pc = "closed" /\ ss.method = "LSL:shortinfo" /\ ss.query = "match"
    /\ ss.served /\ ss.written = << Message("shortinfo") >>

InitSync == InitIn({Serving})
SpecSync == InitSync /\ [][NextSync]_vars

\* write_all_blocking has returned
Returned == sy.pc = "idle" /\ sy.rounds > 0

\* C25: after write_all_blocking returns, every socket whose write completed
\* with broken pipe or connection reset is out of the vector, and every
\* socket whose write succeeded, was aborted or failed otherwise is still
\* in the vector and open.
C25_RecoveryPerSocket ==
    Returned =>
        \A id \in DOMAIN sy.result :
            IF sy.result[id] \in Broken
            THEN id \notin Ids(sy)
            ELSE id \in Ids(sy) /\ IsOpen(sy, id)

\* the receive handlers the loop ran in this step
RanReceive == { h \in at.ready \ at'.ready : h.k = "recv" /\ LoopStep /\ at'.id = at.id }

\* C31: a datagram without a newline, with another query id, with an
\* unparsable shortinfo block or with a stream info that does not match
\* the query leaves the result map unchanged and does not stop the loop:
\* the next receive is posted unless the attempt is done (then it is
\* cancelled).  A receive that completes with operation_aborted,
\* not_connected or not_socket, or on a cancelled attempt, posts no
\* further receive and changes nothing.
C31_JunkSwallowed ==
    [][ \A h \in RanReceive :
          /\ (~at.cancelled_ /\ h.err = "ok" /\ h.rep \in Swallowed) =>
                /\ at'.results_ = at.results_
                /\ IF Due(at, now)
                   THEN at'.cancelled_ /\ ~at'.recv_pending
                   ELSE ~at'.cancelled_ /\ at'.recv_pending /\ at'.recv_open
          /\ (at.cancelled_ \/ h.err \in Dead) =>
                /\ at'.results_ = at.results_
                /\ ~at'.recv_pending
                /\ at'.cancelled_ = at.cancelled_ ]_vars

\* junk has been swallowed while an entry was in the map: the entry is as
\* it was, and the next receive is posted on the live attempt
C31_Witness ==
    /\ pc # "idle" /\ ~at.cancelled_ /\ at.recv_pending
    /\ at.results_[1] # Absent /\ at.results_[1].last < now
    /\ at.swallowed

\* the receive handlers that are ready to run
ReadyReceives == { h \in at.ready : h.k = "recv" }

\* C32: an attempt has at most one asynchronous receive outstanding on its
\* receive socket: the count of receives posted and not yet handled is 0 or
\* 1, and it is 1 exactly when a receive is pending or its handler is
\* ready, never both.
C32_OneReceiveOutstanding ==
    /\ at.receives \in {0, 1}
    /\ at.receives = 1 <=> (at.recv_pending \/ ReadyReceives # {})
    /\ ~(at.recv_pending /\ ReadyReceives # {})
    /\ Cardinality(ReadyReceives) <= 1

\* the receive loop has gone round: an entry is in the map, and the next
\* receive is outstanding
C32_Witness ==
    /\ at.receives = 1 /\ at.recv_pending /\ ~at.cancelled_
    /\ at.results_[1] # Absent /\ at.swallowed

\* sender s (0 the unicast sender, 1.. the multicast/broadcast senders) is
\* due to send again: its class's timer waits for it, or the handler of
\* its expired wait is ready to run
Scheduled(a, s) ==
    \/ s = 0 /\ a.unicast_timer_ # NoWait
    \/ s > 0 /\ a.multicast_timer_ # NoWait /\ a.multicast_timer_.s = s
    \/ \E h \in a.ready :
          h.k = (IF s = 0 THEN "u" ELSE "m") /\ h.s = s /\ h.err = "ok"

\* C33: every wave reaches all senders of its class; stated on finite
\* runs: while the attempt is not cancelled, every sender that took part
\* in the immediate burst is due to send again after its class's wait,
\* whatever the number of multicast/broadcast senders.
C33_EverySenderRepeats ==
    ~at.cancelled_ => \A s \in at.sent : SenderOpen(at, s) => Scheduled(at, s)

\* ------------------------------------------------- the first datagrams
\* every combination of senders the constructor can build, one attempt
AnySenders ==
    { Scenario(c, {R(1, 4, 1)}, {0, 1}, {MaxTime, FOREVER}, {0}, {FOREVER},
               1, MaxCancels) :
        c \in {Senders(TRUE, TRUE, TRUE), Senders(TRUE, FALSE, TRUE),
               Senders(FALSE, TRUE, FALSE)} }

InitBurst == InitIn(AnySenders)
SpecBurst == InitBurst /\ [][Next]_vars

\* the senders in the order setup_handlers sends on them
Burst(a) == (IF a.ucast THEN << 0 >> ELSE << >>) \o [i \in 1 .. a.mcast |-> i]

\* two sequences agree as far as both go
Agree(s, t) == \A i \in 1 .. Len(s) : i <= Len(t) => s[i] = t[i]

\* C34 (as stated): the first datagrams of an attempt are the burst of
\* setup_handlers, unicast sender first and then each sender of
\* mcast_senders in turn; nothing is sent before it (an attempt that is
\* constructed and not yet set up has sent nothing).
C34_BurstIsFirst ==
    at.id # 0 =>
        /\ Agree(at.order, Burst(at))
        /\ pc = "os_setup" => at.order = << >>

\* C34 (amended): the constructor sends one query on the broadcast sender
\* when it builds one; the datagrams that follow are the burst of
\* setup_handlers, unicast sender first and then each sender of
\* mcast_senders in turn.
C34_BurstFollowsProbe ==
    at.id # 0 =>
        LET probe == IF scn.cfg.bcast THEN << 1 >> ELSE << >>
        IN  /\ Agree(at.order, probe \o Burst(at))
            /\ pc = "os_setup" => at.order = probe

\* all three senders: the probe, the whole burst and the first repeat
C34_Witness ==
    /\ at.ucast /\ at.mcast = 2 /\ scn.cfg.bcast
    /\ Len(at.order) = 4
    /\ ~at.cancelled_

\* ------------------------------------------------- feed header and pump
\* a float32 outlet with and without a chunk size, clients with and without
\* a max-chunk-length, one sample more than elsewhere
ChunkServers ==
    [use_protocol_version : {110}, format : {"float32"}, ieee754_double : {TRUE},
     ieee754_float : {TRUE}, sync_handler : {FALSE}, chunk_size_ : {0, 1}]
Pumping ==
    BothModes @@ [servers |-> ChunkServers, acceptors |-> {<< TRUE, TRUE >>},
                  chunks |-> {0, 2}, samples |-> MaxSamples + 1,
                  versions |-> {0, 100}]
InitPump == InitIn({Pumping})
SpecPump == InitPump /\ [][NextSession]_vars

\* clients that name any protocol version in their Protocol-Version line
AnyVersion ==
    BothModes @@ [servers |-> PlainServers, acceptors |-> {<< TRUE, TRUE >>},
                  chunks |-> {0}, samples |-> MaxSamples,
                  versions |-> {0, 100, 105, 110, 120}]
InitVersions == InitIn({AnyVersion})
SpecVersions == InitVersions /\ [][NextSession]_vars

\* C35: on an accepted streamfeed session the session writes, before any
\* sample: the response (requests from 1.10 on), in legacy mode the
\* shortinfo archive, the test pattern 4, the test pattern 2, in this order;
\* everything written after that is a chunk of samples, and no chunk is
\* written before the write of the feed header has completed.
C35_HeaderBeforeSamples ==
    ss.pc # "none" /\ ss.header # "none" =>
        LET dpv == ss.data_protocol_version_
            head == (IF ss.request_protocol_version >= 110
                     THEN << Response(ss.srv.use_protocol_version, dpv) >>
                     ELSE << >>) \o
                    (IF dpv = 100 THEN << Archive("shortinfo") >> ELSE << >>) \o
                    << Pattern(4, dpv), Pattern(2, dpv) >>
        IN  /\ Len(ss.written) >= Len(head)
            /\ SubSeq(ss.written, 1, Len(head)) = head
            /\ \A i \in DOMAIN ss.written : i > Len(head) => ss.written[i].t = "chunk"
            /\ ss.header # "done" => Len(ss.written) = Len(head)

\* a legacy session with a response: header of four parts, then a chunk
C35_Witness ==
    /\ ss.pc = "transfer" /\ ss.header = "done"
    /\ ss.request_protocol_version >= 110 /\ ss.data_protocol_version_ = 100
    /\ Len(ss.written) = 5 /\ ss.written[5].t = "chunk"

\* the maximum chunk length a session was given: the client's
\* max-chunk-length if set, else the server's chunk size, else none (0)
Granted ==
    IF ss.params.max_chunk_length # 0 THEN ss.params.max_chunk_length
    ELSE ss.srv.chunk_size_

\* steps of the transfer thread: it serialized a sample, it issued a write,
\* it came back from the wait
Serializes == ss.pc = "transfer" /\ ss.tpc = "pop" /\ Len(ss'.feedbuf_) = Len(ss.feedbuf_) + 1
Issues == ss.pc = "transfer" /\ Len(ss'.written) = Len(ss.written) + 1
Wakes == ss.pc = "transfer" /\ ss.tpc = "wait" /\ ss'.tpc # "wait"

\* C36: a write of the feed buffer is issued exactly when the sample just
\* serialized has pushthrough set or the samples serialized since the last
\* flush (the content of the feed buffer) have reached the maximum chunk
\* length; the write carries the whole buffer; after a successful write the
\* buffer is empty and the counter 0; after a failed write the thread has
\* exited and serializes nothing more.
C36_FlushByChunk ==
    [][ /\ Serializes =>
            /\ Issues <=> \/ Head(ss.samples) \in {"push", "blank"}
                          \/ Granted # 0 /\ Len(ss'.feedbuf_) >= Granted
            /\ Issues => ss'.written[Len(ss'.written)] = Chunk(ss'.feedbuf_)
        /\ Issues => Serializes
        /\ Wakes /\ ~ss.transfer_error_ =>
            ss'.feedbuf_ = << >> /\ ss'.samples_in_current_chunk = 0 /\ ss'.thread
        /\ Wakes /\ ss.transfer_error_ => ~ss'.thread
        /\ ss.pc # "none" /\ ss.tpc = "exited" =>
            ss'.feedbuf_ = ss.feedbuf_ /\ ss'.written = ss.written
      ]_vars

\* a chunk of two samples was written because the chunk was full, and was
\* consumed
C36_Witness ==
    /\ ss.pc = "transfer" /\ ss.tpc = "test" /\ ss.feedbuf_ = << >>
    /\ Granted = 2
    /\ ss.written[Len(ss.written)] = Chunk(<< "data", "data" >>)

\* C37: the data protocol version a session has negotiated is 100 or at
\* least 110, and whenever the test patterns or samples are serialized
\* through the portable archive (versions below 110), the archive has been
\* created before.
C37_VersionAndArchive ==
    ss.pc # "none" =>
        /\ ss.data_protocol_version_ = 100 \/ ss.data_protocol_version_ >= 110
        /\ ss.legacy => ss.outarch_

\* C38: once end_serving has been called, no new session begins processing
\* and none is entered into the in-flight table.
C38_NoSessionAfterEndServing ==
    [][ tcp.pc \in {"ended", "expired"} =>
            /\ ~(ss.pc = "none" /\ ss'.pc # "none")
            /\ ss'.pc \notin {"none", "closed"} /\ ss'.inflight =>
                   ss.pc # "none" /\ ss.inflight
      ]_vars

\* C39: once a cancel() has returned, the socket of the stream buffer is
\* closed, in that state and in every later one.
C39_ClosedAfterCancel == cn.returned > 0 => ~sb.is_open

\* C40: a socket handed over through add_socket has been issued a write in
\* every write_all_blocking call that started after the hand-over, as long
\* as no write to it has failed.
C40_MissesNoPush ==
    \A id \in DOMAIN sy.handoff :
        id \notin sy.failed =>
            \A c \in sy.handoff[id] + 1 .. Started(sy) : << id, c >> \in sy.issued
====
